---- MODULE Spec2Model ----
(***************************************************************************)
(* libgref: a sequence-graph object G that moves pool -> archive -> index, *)
(* the k-mer walker over the archive and the sorted-table k-mer index.     *)
(* Every handler of src/gref.c is a pure operator on the record of G (or   *)
(* of the iterator); the actions apply the operators to the state.         *)
(* Arrays are 0-based in the source and 1-based sequences here: At0 and    *)
(* Set0 keep the source's indices.                                         *)
(***************************************************************************)
EXTENDS Integers, Sequences, FiniteSets, TLC

VARIABLES G, iter, ret, hist

vars == <<G, iter, ret, hist>>

(***************************************************************************)
(* Bounds of the model.                                                    *)
(***************************************************************************)
\* k-mer lengths given to init_pool: 1 .. MaxK
MaxK == 2
\* longest sequence passed to one append_segment call
MaxSegLen == 2
\* number of append_segment calls in one run
MaxSegCalls == 1
\* number of append_link calls in one run
MaxLinkCalls == 1
\* number of freeze calls in one run
MaxFreeze == 2
\* number of append_link calls in a run of pool operations only
MaxPoolLinkCalls == 2
\* append_segment and freeze calls in a run of pool operations with several
\* segments
MaxPoolSegCalls == 2
MaxSegFreeze == 1
\* longest segment of a one-segment graph given to the walker
MaxIdxSegLen == 3
\* longest segment of a two-segment graph given to the walker
MaxLinkedSegLen == 2
\* tuple vectors given to the index table builder: length and largest word
MaxTuples == 2
MaxTupleKmer == 5

(***************************************************************************)
(* Generic helpers.                                                        *)
(***************************************************************************)
At0(s, i) == s[i + 1]
Set0(s, i, v) == [s EXCEPT ![i + 1] = v]
MAX2(x, y) == IF x < y THEN y ELSE x
MIN2(x, y) == IF x > y THEN y ELSE x
MAX3(x, y, z) == MAX2(MAX2(x, y), z)

RECURSIVE Pow(_, _)
Pow(b, e) == IF e = 0 THEN 1 ELSE b * Pow(b, e - 1)

SeqsUpTo(S, n) == UNION {[1..m -> S] : m \in 0..n}

(***************************************************************************)
(* Encode and decode id.                                                   *)
(***************************************************************************)
_rev(d) == IF d % 2 = 0 THEN d + 1 ELSE d - 1
_encode_id(x, d) == 2 * x + (d % 2)
_decode_id(x) == x \div 2
_decode_dir(x) == x % 2

GREF_POOL == 1
GREF_ACV == 2
GREF_IDX == 3

(***************************************************************************)
(* Base codec.  A character is its ASCII code; both tables are indexed by  *)
(* the 5 low bits of the character and hold 0 where the source names no    *)
(* entry.                                                                  *)
(***************************************************************************)
chA == 65
chC == 67
chG == 71
chT == 84
chR == 82
chV == 86
chN == 78

_b(x) == x % 32

gref_encode_2bit(c) ==
    LET i == _b(c) IN
    CASE i = _b(chA) -> 0
      [] i = _b(chC) -> 1
      [] i = _b(chG) -> 2
      [] i = _b(chT) -> 3
      [] i = _b(85)  -> 3
      [] i = _b(chN) -> 0
      [] OTHER       -> 0

gref_encode_4bit(c) ==
    LET i == _b(c) IN
    CASE i = _b(chA) -> 1
      [] i = _b(chC) -> 2
      [] i = _b(chG) -> 4
      [] i = _b(chT) -> 8
      [] i = _b(85)  -> 8
      [] i = _b(chR) -> 5
      [] i = _b(89)  -> 10
      [] i = _b(83)  -> 6
      [] i = _b(87)  -> 9
      [] i = _b(75)  -> 12
      [] i = _b(77)  -> 3
      [] i = _b(66)  -> 14
      [] i = _b(68)  -> 13
      [] i = _b(72)  -> 11
      [] i = _b(chV) -> 7
      [] i = _b(chN) -> 0
      [] OTHER       -> 0

(***************************************************************************)
(* The string-keyed hash map (collaborator).  keys: the names in id order; *)
(* the objects are the slots of G.sec, which exist up to the map's         *)
(* capacity before an id is handed out for them.                           *)
(***************************************************************************)
\* slots of the object array: every id a run can allocate and the slot
\* after the last of them
HmapCap == MaxSegCalls + 2 * MaxPoolLinkCalls + 2 * MaxFreeze + 1

hmap_has(keys, name) == \E i \in 1..Len(keys) : keys[i] = name
hmap_find(keys, name) == (CHOOSE i \in 1..Len(keys) : keys[i] = name) - 1
hmap_get_count(keys) == Len(keys)

\* get_id: the existing id, or the next consecutive one
hmap_get_id(keys, name) ==
    IF hmap_has(keys, name)
    THEN [keys |-> keys, id |-> hmap_find(keys, name)]
    ELSE [keys |-> Append(keys, name), id |-> Len(keys)]

ZeroSlot ==
    [fw_link_idx_base |-> 0, base_id |-> 0, id |-> 0, len |-> 0, base |-> 0,
     rv_link_idx_base |-> 0]

\* struct gref_section_half_s: half j of the object array is the forward
\* link index of slot j/2 (j even) or its reverse link index (j odd)
sec_half_get(sec, j) ==
    IF j % 2 = 0 THEN At0(sec, j \div 2).fw_link_idx_base
    ELSE At0(sec, j \div 2).rv_link_idx_base

sec_half_set(sec, j, v) ==
    IF j % 2 = 0
    THEN [sec EXCEPT ![j \div 2 + 1].fw_link_idx_base = v]
    ELSE [sec EXCEPT ![j \div 2 + 1].rv_link_idx_base = v]

(***************************************************************************)
(* init_pool.  The parameter record and its enumerations are declared in   *)
(* the public header; an option left 0 takes its default.                  *)
(***************************************************************************)
NoG == [alive |-> FALSE]

gref_seq_format == [GREF_ASCII |-> 1, GREF_4BIT |-> 2]
gref_copy_mode == [GREF_COPY |-> 1, GREF_NOCOPY |-> 2]
gref_index_mode == [GREF_INDEX_HASH |-> 1, GREF_INDEX_ITER |-> 2]

\* a parameter record with k set and every other option left 0
GREF_PARAMS(k) ==
    [null |-> FALSE, k |-> k, seq_format |-> 0, copy_mode |-> 0, index_mode |-> 0]

restore(param, def) == IF param = 0 THEN def ELSE param

\* a table whose ASCII row has an encoder in the NOCOPY column as well
append_seq_table_full(seq_format, copy_mode) ==
    IF seq_format = gref_seq_format.GREF_ASCII THEN "gref_copy_seq_ascii"
    ELSE IF copy_mode = gref_copy_mode.GREF_COPY THEN "gref_copy_seq_4bit"
    ELSE "gref_nocopy_seq_4bit"

\* the sequence encoder of a pool: table[seq_format][copy_mode] for the
\* options that passed the range checks, NULL where the table has no entry
append_seq_table(seq_format, copy_mode) ==
    IF seq_format = gref_seq_format.GREF_ASCII
    THEN (IF copy_mode = gref_copy_mode.GREF_COPY THEN "gref_copy_seq_ascii" ELSE "NULL")
    ELSE (IF copy_mode = gref_copy_mode.GREF_COPY THEN "gref_copy_seq_4bit"
          ELSE "gref_nocopy_seq_4bit")

gref_init_pool(params) ==
    IF params.null THEN NoG
    ELSE LET k == restore(params.k, 14)
             seq_format == restore(params.seq_format, gref_seq_format.GREF_ASCII)
             copy_mode == restore(params.copy_mode, gref_copy_mode.GREF_COPY)
             index_mode == restore(params.index_mode, gref_index_mode.GREF_INDEX_HASH)
         IN  IF \/ k > 32
                \/ seq_format > gref_seq_format.GREF_4BIT
                \/ copy_mode > gref_copy_mode.GREF_NOCOPY
                \/ index_mode > gref_index_mode.GREF_INDEX_ITER
             THEN NoG
             ELSE IF append_seq_table(seq_format, copy_mode) = "NULL"
             THEN NoG
             ELSE [alive |-> TRUE, fault |-> FALSE,
                   type |-> GREF_POOL, k |-> k,
                   append_seq |-> append_seq_table(seq_format, copy_mode),
                   hmap |-> <<>>, sec |-> [i \in 1..HmapCap |-> ZeroSlot],
                   tail_id |-> 0, seq |-> <<>>, link |-> <<>>,
                   mask |-> 0, link_table_size |-> 0, link_table |-> <<>>,
                   link_table_ptr |-> "NULL", leaked |-> {},
                   kmer_idx_table |-> <<>>, kmer_table_size |-> 0,
                   kmer_table |-> <<>>]

\* what realloc does with the block it is given
ReallocOutcomes == {"in_place", "moved"}

\* gref_clean: the map, the sequence buffer and both kmer tables are
\* released; the link buffer is released through link_table only (NULL
\* until the first freeze; after a melt the pointer of the last freeze,
\* which a realloc that moved the block has released already); free(gref)
\* is not called.  leaked is what stays allocated with no owner.
gref_clean(gref) ==
    [gref EXCEPT
        !.alive = FALSE,
        !.leaked = gref.leaked \cup {"gref"}
                   \cup (IF gref.link_table_ptr = "link" THEN {} ELSE {"link"}),
        !.fault = gref.fault \/ gref.link_table_ptr = "stale"]

(***************************************************************************)
(* Pool modify operations.  Neither looks at G.type.                       *)
(***************************************************************************)
\* a copy that reports the interval behind the bases it has appended
copy_seq_ascii_behind(gref, s) ==
    [seq |-> gref.seq \o [i \in 1..Len(s) |-> gref_encode_4bit(s[i])],
     base |-> Len(gref.seq) + Len(s), tail |-> Len(gref.seq) + 2 * Len(s)]

gref_copy_seq_ascii(gref, s) ==
    [seq |-> gref.seq \o [i \in 1..Len(s) |-> gref_encode_4bit(s[i])],
     base |-> Len(gref.seq), tail |-> Len(gref.seq) + Len(s)]

\* kv_pushm: the bytes are appended as they are
gref_copy_seq_4bit(gref, s) ==
    [seq |-> gref.seq \o s, base |-> Len(gref.seq), tail |-> Len(gref.seq) + Len(s)]

\* pool->append_seq(pool, seq, seq_len); no pool of the model is in NOCOPY
\* mode
append_seq(pool, s) ==
    IF pool.append_seq = "gref_copy_seq_4bit" THEN gref_copy_seq_4bit(pool, s)
    ELSE gref_copy_seq_ascii(pool, s)

\* the clamp of the length to 0x80000000 is the identity on the lengths of
\* the model
gref_append_segment(pool, name, s) ==
    LET iv == append_seq(pool, s)
        len == iv.tail - iv.base
        h == hmap_get_id(pool.hmap, name)
        id == h.id
    IN  [pool EXCEPT
            !.seq = iv.seq,
            !.hmap = h.keys,
            !.tail_id = MAX2(pool.tail_id, id + 1),
            !.sec = Set0(pool.sec, id,
                [fw_link_idx_base |-> 0, base_id |-> id, id |-> id, len |-> len,
                 base |-> iv.base, rv_link_idx_base |-> 0])]

\* kv_push on the link vector.  In ACV and IDX the vector's buffer is the
\* destination array, cut to half its pairs by gref_shrink_link_table: a
\* push then writes past the buffer.
link_push2(pool, p1, p2) ==
    IF pool.type = GREF_POOL
    THEN [pool EXCEPT !.link = pool.link \o <<p1, p2>>]
    ELSE [pool EXCEPT !.fault = TRUE]

\* append_link with a twin that keeps both orientations
append_link_same_ori(pool, src, src_ori, dst, dst_ori) ==
    LET h1 == hmap_get_id(pool.hmap, src)
        h2 == hmap_get_id(h1.keys, dst)
        p == link_push2([pool EXCEPT !.hmap = h2.keys],
                [from |-> _encode_id(h1.id, src_ori), to |-> _encode_id(h2.id, dst_ori)],
                [from |-> _encode_id(h2.id, dst_ori), to |-> _encode_id(h1.id, src_ori)])
    IN  [p EXCEPT !.tail_id = MAX3(pool.tail_id, h1.id, h2.id)]

\* append_link that looks up dst before src
append_link_dst_first(pool, src, src_ori, dst, dst_ori) ==
    LET h2 == hmap_get_id(pool.hmap, dst)
        h1 == hmap_get_id(h2.keys, src)
        p == link_push2([pool EXCEPT !.hmap = h1.keys],
                [from |-> _encode_id(h1.id, src_ori), to |-> _encode_id(h2.id, dst_ori)],
                [from |-> _encode_id(h2.id, _rev(dst_ori)),
                 to |-> _encode_id(h1.id, _rev(src_ori))])
    IN  [p EXCEPT !.tail_id = MAX3(pool.tail_id, h1.id, h2.id)]

gref_append_link(pool, src, src_ori, dst, dst_ori) ==
    LET h1 == hmap_get_id(pool.hmap, src)
        h2 == hmap_get_id(h1.keys, dst)
        src_id == h1.id
        dst_id == h2.id
        fw == [from |-> _encode_id(src_id, src_ori), to |-> _encode_id(dst_id, dst_ori)]
        rv == [from |-> _encode_id(dst_id, _rev(dst_ori)),
               to |-> _encode_id(src_id, _rev(src_ori))]
        p == link_push2([pool EXCEPT !.hmap = h2.keys], fw, rv)
    IN  [p EXCEPT !.tail_id = MAX3(pool.tail_id, src_id, dst_id)]

(***************************************************************************)
(* The sort (collaborator): records ordered by an unsigned key prefix,     *)
(* stability not required.  mode chooses the order among equal keys:       *)
(* insertion order or its reverse.  The key is the record's first 8 bytes: *)
(* the kmer of a tuple, both gids of a link pair (from_gid first, ties     *)
(* broken by to_gid).                                                      *)
(***************************************************************************)
SortModes == {"stable", "reverse"}

psort_rank(keys, mode, i) ==
    Cardinality({j \in 1..Len(keys) :
        \/ keys[j] < keys[i]
        \/ keys[j] = keys[i] /\ (IF mode = "stable" THEN j < i ELSE j > i)}) + 1

\* the permutation that sorts keys: position p of the output takes input
\* element psort_perm(keys, mode)[p]
psort_perm(keys, mode) ==
    [p \in 1..Len(keys) |-> CHOOSE i \in 1..Len(keys) : psort_rank(keys, mode, i) = p]

psort_half(arr, keys, mode) ==
    LET perm == psort_perm(keys, mode) IN [p \in 1..Len(arr) |-> arr[perm[p]]]

(***************************************************************************)
(* Build link table (pool -> acv conversion).                              *)
(***************************************************************************)
SentinelZeros == <<"tail_sentinel_0", "tail_sentinel_00", "tail_sentinel_000",
                   "tail_sentinel_0000", "tail_sentinel_00000",
                   "tail_sentinel_000000", "tail_sentinel_0000000",
                   "tail_sentinel_00000000", "tail_sentinel_000000000",
                   "tail_sentinel_0000000000", "tail_sentinel_00000000000",
                   "tail_sentinel_000000000000">>

\* the do-while of gref_add_tail_section: one more '0' per round, until the
\* id handed out is tail_id (or the name is 256 characters long)
RECURSIVE add_tail_loop(_, _, _)
add_tail_loop(keys, n, tail_id) ==
    LET h == hmap_get_id(keys, SentinelZeros[n]) IN
    IF h.id # tail_id /\ 14 + n < 256
    THEN add_tail_loop(h.keys, n + 1, tail_id)
    ELSE h.keys

gref_add_tail_section(pool) ==
    LET tail_id == pool.tail_id + 1 IN
    IF hmap_get_count(pool.hmap) >= tail_id
    THEN pool
    ELSE LET keys == add_tail_loop(pool.hmap, 1, tail_id)
             old == At0(pool.sec, tail_id)
         IN  [pool EXCEPT
                !.hmap = keys,
                !.sec = Set0(pool.sec, tail_id,
                    [old EXCEPT !.base_id = tail_id, !.id = tail_id,
                                !.len = 0, !.base = 0])]

\* sec_half[j].link_idx_base = v for lo <= j < hi
RECURSIVE fill_gaps(_, _, _, _)
fill_gaps(sec, lo, hi, v) ==
    IF lo >= hi THEN sec ELSE fill_gaps(sec_half_set(sec, lo, v), lo + 1, hi, v)

\* the loop with the gap filled up to gid, not up to and including it
RECURSIVE link_idx_loop_short(_, _, _, _)
link_idx_loop_short(sec, link, i, prev_gid) ==
    IF i >= Len(link) THEN [sec |-> sec, prev_gid |-> prev_gid]
    ELSE IF prev_gid = At0(link, i).from
    THEN link_idx_loop_short(sec, link, i + 1, prev_gid)
    ELSE link_idx_loop_short(fill_gaps(sec, prev_gid + 1, At0(link, i).from, i),
                             link, i + 1, At0(link, i).from)

\* the loop over the sorted pairs; yields the slots and the last gid seen
RECURSIVE link_idx_loop(_, _, _, _)
link_idx_loop(sec, link, i, prev_gid) ==
    IF i >= Len(link) THEN [sec |-> sec, prev_gid |-> prev_gid]
    ELSE LET gid == At0(link, i).from IN
         IF prev_gid = gid
         THEN link_idx_loop(sec, link, i + 1, prev_gid)
         ELSE link_idx_loop(fill_gaps(sec, prev_gid + 1, gid + 1, i), link, i + 1, gid)

\* the key of a pair: from_gid, then to_gid
GidSpan == 2 * (HmapCap + 1)
link_keys(link) == [i \in 1..Len(link) |-> link[i].from * GidSpan + link[i].to]

\* store tail
link_idx_tail(r, link_idx_table_size, link_table_size) ==
    fill_gaps(r.sec, r.prev_gid + 1, link_idx_table_size + 1, link_table_size)

link_idx_sorted(pool, sorted) ==
    [pool EXCEPT
        !.link_table_size = Len(pool.link),
        !.link = sorted,
        !.sec = link_idx_tail(link_idx_loop(sec_half_set(pool.sec, 0, 0), sorted, 0, 0),
                              2 * (pool.tail_id + 1), Len(pool.link))]

gref_build_link_idx_table(pool, mode) ==
    link_idx_sorted(pool, psort_half(pool.link, link_keys(pool.link), mode))

\* the pair buffer is overwritten in place by the to fields and cut to that
\* size: from here on the buffer is the destination array, not pairs
gref_shrink_link_table(pool) ==
    [pool EXCEPT
        !.link_table = [i \in 1..pool.link_table_size |-> pool.link[i].to],
        !.link_table_ptr = "link",
        !.link = <<>>]

\* one step of the expansion, on the buffer seen as 32-bit words: pair j
\* takes words 2j and 2j+1, the destination is read from word j
RECURSIVE expand_loop(_, _, _, _)
expand_loop(w, sec, i, j) ==
    IF i < 0 THEN w
    ELSE IF j >= sec_half_get(sec, i)
    THEN expand_loop(Set0(Set0(w, 2 * j + 1, At0(w, j)), 2 * j, i), sec, i, j - 1)
    ELSE IF i = 0 THEN w
    ELSE expand_loop(w, sec, i - 1, sec_half_get(sec, i) - 1)

\* a word of the grown buffer that nothing has written
Indeterminate == -1

\* kv_resize: the destination array, grown to the size of the pairs
expand_resize(acv) ==
    [p \in 1..(2 * acv.link_table_size) |->
        IF p <= acv.link_table_size THEN acv.link_table[p] ELSE Indeterminate]

\* the buffer as pairs again.  A pair the loop did not write (the index
\* did not cover it) is indeterminate memory: the pool is marked, nothing
\* is known of what is computed from it
expand_store(acv, w, realloc) ==
    [acv EXCEPT
        !.link_table_ptr = IF realloc = "moved" THEN "stale" ELSE acv.link_table_ptr,
        !.link = [p \in 1..acv.link_table_size |->
                    [from |-> At0(w, 2 * (p - 1)), to |-> At0(w, 2 * (p - 1) + 1)]],
        !.link_table = <<>>,
        !.fault = \E p \in 1..Len(w) : w[p] = Indeterminate]

\* an expansion that does not read the index: every pair from gid 0
expand_from_zero(acv, realloc) ==
    expand_store(acv,
        [p \in 1..(2 * acv.link_table_size) |->
            IF p % 2 = 1 THEN 0 ELSE acv.link_table[p \div 2]], realloc)

gref_expand_link_table(acv, realloc) ==
    expand_store(acv,
        expand_loop(expand_resize(acv), acv.sec, 2 * (acv.tail_id + 1) - 1,
                    sec_half_get(acv.sec, 2 * (acv.tail_id + 1)) - 1), realloc)

gref_freeze_pool(gref, mode) ==
    IF gref.type # GREF_POOL
    THEN [g |-> gref_clean(gref), r |-> "NULL"]
    ELSE LET g1 == gref_add_tail_section(gref)
             g2 == gref_build_link_idx_table(g1, mode)
             g3 == gref_shrink_link_table(g2)
         IN  [g |-> [g3 EXCEPT !.type = GREF_ACV], r |-> "G"]

\* a melt that rebuilds the pairs and forgets the type
melt_keeps_type(gref, realloc) ==
    IF gref.type # GREF_ACV
    THEN [g |-> gref_clean(gref), r |-> "NULL"]
    ELSE [g |-> gref_expand_link_table(gref, realloc), r |-> "G"]

gref_melt_archive(gref, realloc) ==
    IF gref.type # GREF_ACV
    THEN [g |-> gref_clean(gref), r |-> "NULL"]
    ELSE [g |-> [gref_expand_link_table(gref, realloc) EXCEPT !.type = GREF_POOL],
          r |-> "G"]

(***************************************************************************)
(* K-mer enumeration.  The iterator is a record; its stack is the chain of *)
(* frames from the root (first) to iter->stack (last), the empty sequence  *)
(* being the NULL stack.  A frame's kmer field is the content of its       *)
(* kmer[] array as far as it was written.  fault records that the walk     *)
(* executed undefined behaviour (a NULL frame dereferenced, a base read    *)
(* outside the sequence buffer); nothing is known of the walk after that.  *)
(* 32-bit unsigned counters that wrapped below 0 are shown as negative     *)
(* numbers (x stands for x + 2^32).                                        *)
(***************************************************************************)
\* 64 bits set
GREF_ITER_KMER_TERM == -1

popcnt_table == <<0, 1, 1, 2, 1, 2, 2, 3, 1, 2, 2, 3, 2, 3, 3, 0>>

iter_encode_2bit ==
    << <<>>, <<0>>, <<1>>, <<0, 1>>, <<2>>, <<0, 2>>, <<1, 2>>, <<0, 1, 2>>,
       <<3>>, <<0, 3>>, <<1, 3>>, <<0, 1, 3>>, <<2, 3>>, <<0, 2, 3>>, <<1, 2, 3>>,
       <<>> >>

\* memcpy of the first occ words to [occ, 2 occ) and [2 occ, 3 occ), as far
\* as n1 = pcnt * occ
append_rep(kmer, occ, n1) ==
    [p \in 1..MAX2(Len(kmer), n1) |->
        IF p <= occ \/ p > n1 THEN kmer[p] ELSE kmer[((p - 1) % occ) + 1]]

\* kmer[j * occ + k] = (kmer[j * occ + k]>>2) | (encode_2bit[c][j]<<shift_len)
append_shift(rep, occ, n1, c, shift_len) ==
    [p \in 1..Len(rep) |->
        IF p <= n1
        THEN (rep[p] \div 4)
             + At0(At0(iter_encode_2bit, c), (p - 1) \div occ) * Pow(2, shift_len)
        ELSE rep[p]]

\* merge (shrink buffer)
append_shrink(app, n1, shrink_skip) ==
    IF shrink_skip > 1
    THEN [occ |-> n1 \div shrink_skip,
          kmer |-> [p \in 1..Len(app) |->
                        IF p <= n1 \div shrink_skip
                        THEN app[(p - 1) * shrink_skip + 1] ELSE app[p]]]
    ELSE [occ |-> n1, kmer |-> app]

shrink_skip_of(cnt_arr, shift_len) == (cnt_arr \div Pow(2, shift_len + 2)) % 4

append_words(kmer, occ, c, shift_len, cnt_arr) ==
    append_shrink(
        append_shift(append_rep(kmer, occ, At0(popcnt_table, c) * occ),
                     occ, At0(popcnt_table, c) * occ, c, shift_len),
        At0(popcnt_table, c) * occ,
        shrink_skip_of(cnt_arr, shift_len))

append_store(stack, cnt_arr, r) ==
    [stack EXCEPT !.cnt_arr = cnt_arr, !.kmer = r.kmer, !.kmer_idx = 0,
                  !.kmer_occ = r.occ]

gref_iter_append_base(stack, c) ==
    append_store(stack, stack.cnt_arr * 4 + At0(popcnt_table, c),
        append_words(stack.kmer, stack.kmer_occ, c, stack.shift_len,
                     stack.cnt_arr * 4 + At0(popcnt_table, c)))

\* len: length to fetch from base; the result indexes the sequence buffer
gref_iter_calc_seq_base(sec, gid, len) ==
    sec.base + (IF _decode_dir(gid) = 0 THEN len - 1 ELSE sec.len - len)

\* stack->fetch(stack): the frame after the fetch and the index read
gref_iter_foward_fetch(stack) ==
    [stack |-> [stack EXCEPT !.pos = stack.pos + 1, !.rem_len = stack.rem_len - 1],
     at |-> stack.seq_base - (stack.rem_len - 1)]

gref_iter_reverse_fetch(stack) ==
    [stack |-> [stack EXCEPT !.pos = stack.pos + 1, !.rem_len = stack.rem_len - 1],
     at |-> stack.seq_base + (stack.rem_len - 1)]

stack_fetch(stack) ==
    IF stack.fetch = "foward" THEN gref_iter_foward_fetch(stack)
    ELSE gref_iter_reverse_fetch(stack)

\* a fetch at rem_len = 0 wraps rem_len and reads about 4G before or after
\* seq_base: outside the buffer
fetch_checked(acv, f, rem_len) ==
    IF rem_len = 0 \/ f.at < 0 \/ f.at >= Len(acv.seq)
    THEN [ok |-> FALSE, stack |-> f.stack]
    ELSE [ok |-> TRUE, stack |-> gref_iter_append_base(f.stack, At0(acv.seq, f.at))]

\* gref_iter_append_base(stack, stack->fetch(stack))
fetch_append(acv, stack) == fetch_checked(acv, stack_fetch(stack), stack.rem_len)

gref_iter_add_stack(stack) ==
    [stack EXCEPT !.kmer_idx = 0, !.kmer = SubSeq(stack.kmer, 1, stack.kmer_occ)]

Top(st) == st[Len(st)]
Pop(st) == SubSeq(st, 1, Len(st) - 1)
SetTop(st, f) == [st EXCEPT ![Len(st)] = f]

\* the result of a step on the stack: the new chain of frames (empty: NULL)
\* and whether the step dereferenced NULL or read out of bounds
Walked(st) == [st |-> st, fault |-> FALSE]
Faulted(st) == [st |-> st, fault |-> TRUE]

push_fetched(below, r) ==
    IF r.ok THEN Walked(Append(below, r.stack)) ELSE Faulted(Append(below, r.stack))

\* while(stack->link_idx == rv_link_idx_base of the frame's section) pop
RECURSIVE remove_exhausted(_, _)
remove_exhausted(acv, st) ==
    IF st = <<>> THEN st
    ELSE IF Top(st).link_idx = At0(acv.sec, _decode_id(Top(st).sec_gid)).rv_link_idx_base
    THEN remove_exhausted(acv, Pop(st))
    ELSE st

\* the frame pushed for successor gid: link index, fetch direction and
\* lengths of the new section
child_frame(new, gid, sec) ==
    [new EXCEPT
        !.sec_gid = gid,
        !.link_idx = sec.fw_link_idx_base,
        !.fetch = IF _decode_dir(gid) = 0 THEN "foward" ELSE "reverse",
        !.rem_len = MIN2(new.global_rem_len, sec.len),
        !.seq_base = gref_iter_calc_seq_base(sec, gid, MIN2(new.global_rem_len, sec.len)),
        !.global_rem_len = new.global_rem_len - MIN2(new.global_rem_len, sec.len)]

push_child(acv, below, parent, gid) ==
    push_fetched(Append(below, parent),
        fetch_append(acv,
            child_frame(gref_iter_add_stack(parent), gid, At0(acv.sec, _decode_id(gid)))))

\* load next gid: gid = link_table[stack->link_idx++]
descend_link(acv, st) ==
    IF st = <<>> THEN Walked(st)
    ELSE IF Top(st).link_idx >= Len(acv.link_table) THEN Faulted(st)
    ELSE push_child(acv, Pop(st), [Top(st) EXCEPT !.link_idx = Top(st).link_idx + 1],
                    At0(acv.link_table, Top(st).link_idx))

\* the frame the link loop starts from is read without a NULL check
descend(acv, st) ==
    IF st = <<>> THEN Faulted(st) ELSE descend_link(acv, remove_exhausted(acv, st))

\* return if no more seq remains
after_tail(st) == IF Top(st).global_rem_len = 0 THEN Pop(st) ELSE st

gref_iter_fetch(acv, st) ==
    IF st = <<>> THEN Faulted(st)
    ELSE IF Top(st).rem_len > 0
    THEN push_fetched(Pop(st), fetch_append(acv, Top(st)))
    ELSE descend(acv, after_tail(st))

\* the seeding loop: seed_len fetches, the frame of one being the argument of
\* the next
RECURSIVE seed_loop(_, _, _)
seed_loop(acv, w, n) ==
    IF n = 0 \/ w.fault THEN w ELSE seed_loop(acv, gref_iter_fetch(acv, w.st), n - 1)

root_frame(it, sec) ==
    [global_rem_len |-> it.seed_len - 1, shift_len |-> it.shift_len,
     sec_gid |-> it.base_gid, link_idx |-> sec.fw_link_idx_base,
     fetch |-> "foward",
     seq_base |-> gref_iter_calc_seq_base(sec, it.base_gid, sec.len),
     rem_len |-> sec.len, pos |-> 0,
     cnt_arr |-> 0, kmer_idx |-> 0, kmer_occ |-> 1, kmer |-> <<0>>]

gref_iter_init_stack(acv, it) ==
    seed_loop(acv, Walked(<<root_frame(it, At0(acv.sec, _decode_id(it.base_gid)))>>),
              it.seed_len)

NoIter == [alive |-> FALSE, open |-> FALSE]

iter_header(acv) ==
    [alive |-> TRUE, open |-> TRUE, fault |-> FALSE, base_gid |-> 0,
     tail_gid |-> _encode_id(acv.tail_id, 0),
     seed_len |-> acv.k, shift_len |-> 2 * (acv.k - 1),
     stack |-> <<>>]

iter_seeded(it, w) == [it EXCEPT !.stack = w.st, !.fault = w.fault]

gref_iter_init(acv) ==
    iter_seeded(iter_header(acv), gref_iter_init_stack(acv, iter_header(acv)))

\* return_kmer: kmer[kmer_idx++] of the frame, whatever kmer_occ is; a word
\* of kmer[] that was never written holds garbage
\* a return_kmer that attributes the tuple to the section of the frame
return_kmer_frame_gid(it, st, garbage) ==
    [it |-> [it EXCEPT !.stack = SetTop(st,
                [Top(st) EXCEPT !.kmer_idx = Top(st).kmer_idx + 1])],
     t |-> [kmer |-> IF Top(st).kmer_idx < Len(Top(st).kmer)
                     THEN At0(Top(st).kmer, Top(st).kmer_idx) ELSE garbage,
            gid |-> Top(st).sec_gid, pos |-> Top(st).pos - it.seed_len]]

return_kmer(it, st, garbage) ==
    [it |-> [it EXCEPT !.stack = SetTop(st,
                [Top(st) EXCEPT !.kmer_idx = Top(st).kmer_idx + 1])],
     t |-> [kmer |-> IF Top(st).kmer_idx < Len(Top(st).kmer)
                     THEN At0(Top(st).kmer, Top(st).kmer_idx) ELSE garbage,
            gid |-> it.base_gid, pos |-> Top(st).pos - it.seed_len]]

TerminalTuple == [kmer |-> GREF_ITER_KMER_TERM, gid |-> -1, pos |-> 0]

IterFault(it) == [it |-> [it EXCEPT !.fault = TRUE], t |-> TerminalTuple]

\* return_kmer on the frame the seeding left, NULL or not
next_seeded(it, w, garbage) ==
    IF w.fault \/ w.st = <<>> THEN IterFault([it EXCEPT !.stack = w.st])
    ELSE return_kmer(it, w.st, garbage)

\* (iter->base_gid += 2) < iter->tail_gid
next_base(acv, it, garbage) ==
    IF it.base_gid < it.tail_gid
    THEN next_seeded(it, gref_iter_init_stack(acv, it), garbage)
    ELSE [it |-> it, t |-> TerminalTuple]

next_fetched(acv, it, w, garbage) ==
    IF w.fault THEN IterFault([it EXCEPT !.stack = w.st])
    ELSE IF w.st # <<>> THEN return_kmer(it, w.st, garbage)
    ELSE next_base(acv, [it EXCEPT !.stack = <<>>, !.base_gid = it.base_gid + 2], garbage)

gref_iter_next(acv, it, garbage) ==
    IF it.stack = <<>> THEN IterFault(it)
    ELSE IF Top(it.stack).kmer_idx < Top(it.stack).kmer_occ
    THEN return_kmer(it, it.stack, garbage)
    ELSE next_fetched(acv, it, gref_iter_fetch(acv, it.stack), garbage)

\* if(stack != NULL) free(iter): a drained iterator is not released
gref_iter_clean(it) ==
    IF it.stack # <<>> THEN [it EXCEPT !.alive = FALSE] ELSE it

\* what the caller is left with after iter_clean: no handle, and the
\* iterator's memory either released or still allocated
Dropped(it) == [alive |-> it.alive, open |-> FALSE]

(***************************************************************************)
(* Build kmer index (acv -> idx conversion).                               *)
(***************************************************************************)
\* while((t = gref_iter_next(iter)).kmer != GREF_ITER_KMER_TERM) kv_push(v, t)
RECURSIVE drain(_, _, _, _)
RECURSIVE drain_step(_, _, _, _)
drain_step(acv, r, v, garbage) ==
    IF r.it.fault \/ r.t.kmer = GREF_ITER_KMER_TERM THEN [it |-> r.it, v |-> v]
    ELSE drain(acv, r.it, Append(v, r.t), garbage)

drain(acv, it, v, garbage) == drain_step(acv, gref_iter_next(acv, it, garbage), v, garbage)

\* n copies of x
Rep(n, x) == [i \in 1..MAX2(n, 0) |-> x]

\* the scan of the sorted tuples: the table so far and the last kmer seen
RECURSIVE kmer_idx_loop(_, _, _, _)
kmer_idx_loop(kmer_idx, arr, i, prev_kmer) ==
    IF i >= Len(arr) THEN [kmer_idx |-> kmer_idx, prev_kmer |-> prev_kmer]
    ELSE IF prev_kmer = At0(arr, i).kmer
    THEN kmer_idx_loop(kmer_idx, arr, i + 1, prev_kmer)
    ELSE kmer_idx_loop(kmer_idx \o Rep(At0(arr, i).kmer - prev_kmer, i), arr, i + 1,
                       At0(arr, i).kmer)

\* 0x01 << n on a 32-bit int.  From n = 32 on the shift is undefined: ub is
\* what the build makes of it, the count taken modulo 32 or all bits shifted
\* out
ShiftOutcomes == {"masked", "zero"}

int_shl(n, ub) ==
    IF n < 31 THEN Pow(2, n)
    ELSE IF ub = "masked" THEN Pow(2, n % 32) ELSE 0

kmer_idx_size(k, ub) == int_shl(2 * k, ub)

\* fill tail gaps
kmer_idx_tail(r, size, n) == r.kmer_idx \o Rep(size - r.prev_kmer, n)

gref_build_kmer_idx_table(acv, arr, ub) ==
    kmer_idx_tail(kmer_idx_loop(<<0>>, arr, 0, 0), kmer_idx_size(acv.k, ub), Len(arr))

gref_shrink_kmer_table(arr) ==
    [i \in 1..Len(arr) |-> [gid |-> arr[i].gid, pos |-> arr[i].pos]]

kmer_keys(v) == [i \in 1..Len(v) |-> v[i].kmer]

index_sorted(gref, v, drained, ub) ==
    [g |-> [gref EXCEPT
                !.kmer_idx_table = gref_build_kmer_idx_table(gref, v, ub),
                !.kmer_table_size = Len(v),
                !.kmer_table = gref_shrink_kmer_table(v),
                !.mask = int_shl(2 * gref.k, ub) - 1,
                !.type = GREF_IDX],
     r |-> "G", v |-> drained]

index_drained(gref, d, mode, ub) ==
    IF d.it.fault
    THEN [g |-> [gref EXCEPT !.fault = TRUE], r |-> "fault", v |-> d.v]
    ELSE index_sorted(gref, psort_half(d.v, kmer_keys(d.v), mode), d.v, ub)

gref_build_index(gref, mode, garbage, ub) ==
    IF gref.type # GREF_ACV
    THEN [g |-> gref_clean(gref), r |-> "NULL", v |-> <<>>]
    ELSE index_drained(gref, drain(gref, gref_iter_init(gref), <<>>, garbage), mode, ub)

\* kmer_idx_table is freed; kmer_table is set to NULL without a free and
\* its block stays allocated with no pointer to it
\* a disable_index that gives up the link table with the k-mer tables
disable_index_drops_links(gref) ==
    IF gref.type # GREF_IDX
    THEN [g |-> gref_clean(gref), r |-> "NULL"]
    ELSE [g |-> [gref EXCEPT !.kmer_idx_table = <<>>, !.kmer_table = <<>>,
                             !.kmer_table_size = 0, !.type = GREF_ACV,
                             !.link_table = <<>>, !.link_table_size = 0,
                             !.leaked = gref.leaked \cup {"kmer_table"}],
          r |-> "G"]

gref_disable_index(gref) ==
    IF gref.type # GREF_IDX
    THEN [g |-> gref_clean(gref), r |-> "NULL"]
    ELSE [g |-> [gref EXCEPT !.kmer_idx_table = <<>>, !.kmer_table = <<>>,
                             !.kmer_table_size = 0, !.type = GREF_ACV,
                             !.leaked = gref.leaked \cup {"kmer_table"}],
          r |-> "G"]

(***************************************************************************)
(* Queries.  Neither looks at G.type: without the tables (POOL, ACV) the   *)
(* lookup reads through a NULL kmer_idx_table.                             *)
(***************************************************************************)
RECURSIVE BitAnd(_, _)
BitAnd(a, b) ==
    IF a = 0 \/ b = 0 THEN 0
    ELSE (a % 2) * (b % 2) + 2 * BitAnd(a \div 2, b \div 2)

match_slice(gref, seq) ==
    IF seq + 1 >= Len(gref.kmer_idx_table)
    THEN [fault |-> TRUE, base |-> 0, len |-> 0, hits |-> <<>>]
    ELSE [fault |-> FALSE, base |-> At0(gref.kmer_idx_table, seq),
          len |-> At0(gref.kmer_idx_table, seq + 1) - At0(gref.kmer_idx_table, seq),
          hits |-> SubSeq(gref.kmer_table, At0(gref.kmer_idx_table, seq) + 1,
                          At0(gref.kmer_idx_table, seq + 1))]

\* the lookup without seq &= gref->mask
match_unmasked(gref, w) == match_slice(gref, w)

gref_match_2bitpacked(gref, w) == match_slice(gref, BitAnd(w, gref.mask))

\* a packing that shifts left: the newest base enters at the bottom
RECURSIVE pack_loop_shl(_, _, _, _)
pack_loop_shl(seq, i, shift_len, packed_seq) ==
    IF i >= Len(seq) THEN packed_seq
    ELSE pack_loop_shl(seq, i + 1, shift_len,
            ((packed_seq * 4) % Pow(2, shift_len + 2)) + gref_encode_2bit(At0(seq, i)))

RECURSIVE pack_loop(_, _, _, _)
pack_loop(seq, i, shift_len, packed_seq) ==
    IF i >= Len(seq) THEN packed_seq
    ELSE pack_loop(seq, i + 1, shift_len,
            (packed_seq \div 4) + gref_encode_2bit(At0(seq, i)) * Pow(2, shift_len))

\* a lookup that returns the first record of the slice only
match_first_record(gref, seq) ==
    [gref_match_2bitpacked(gref, pack_loop(seq, 0, 2 * (gref.k - 1), 0))
        EXCEPT !.len = MIN2(@, 1), !.hits = SubSeq(@, 1, MIN2(Len(@), 1))]

\* seq holds the k characters the source reads
gref_match(gref, seq) ==
    gref_match_2bitpacked(gref, pack_loop(seq, 0, 2 * (gref.k - 1), 0))

gref_get_section_cnt(gref) == gref.tail_id
gref_get_total_len(gref) == Len(gref.seq)
gref_get_section(gref, id) ==
    [id |-> At0(gref.sec, id).id, len |-> At0(gref.sec, id).len,
     base |-> At0(gref.sec, id).base]
gref_get_name(gref, id) == At0(gref.hmap, id)

(***************************************************************************)
(* The state machine.  G: the object; iter: the one iterator of the run;   *)
(* ret: the last call and what it returned; hist: what the run has done    *)
(* so far (call counts, the segment and link calls, the pool and archive of *)
(* the last freeze, the tuples the last build_index drained).                *)
(***************************************************************************)
Names == {"a", "b"}
Alphabet == {chA}
SegInputs == SeqsUpTo(Alphabet, MaxSegLen)
QueryChars == {chA, chC}
Oris == {0, 1}
GarbageWords == {0, GREF_ITER_KMER_TERM}

Ret(op, val) == [op |-> op, val |-> val]

Usable == G.alive /\ ~G.fault
\* the caller holds no iterator
NoOpenIter == ~iter.open

\* the calls a run may still make: append_segment, append_link, freeze
Budget(seg, link, freeze) == [seg |-> seg, link |-> link, freeze |-> freeze]

Start(g, budget) ==
    /\ G = g
    /\ iter = NoIter
    /\ ret = Ret("init_pool", "G")
    /\ hist = [nseg |-> 0, nlink |-> 0, nfreeze |-> 0, links |-> <<>>,
               segs |-> <<>>,
               pool |-> NoG, acv |-> NoG, v |-> <<>>, budget |-> budget]

Init ==
    \E k \in 1..MaxK :
        Start(gref_init_pool(GREF_PARAMS(k)), Budget(MaxSegCalls, MaxLinkCalls, MaxFreeze))

AppendSegment ==
    \E name \in Names, s \in SegInputs :
        /\ Usable /\ NoOpenIter
        /\ hist.nseg < hist.budget.seg
        /\ G' = gref_append_segment(G, name, s)
        /\ ret' = Ret("append_segment", 0)
        /\ hist' = [hist EXCEPT !.nseg = hist.nseg + 1,
                                !.segs = Append(hist.segs, [name |-> name, s |-> s])]
        /\ UNCHANGED iter

AppendLink ==
    \E src \in Names, dst \in Names, src_ori \in Oris, dst_ori \in Oris :
        /\ Usable /\ NoOpenIter
        /\ hist.nlink < hist.budget.link
        /\ G' = gref_append_link(G, src, src_ori, dst, dst_ori)
        /\ ret' = Ret("append_link", 0)
        /\ hist' = [hist EXCEPT !.nlink = hist.nlink + 1,
                                !.links = Append(hist.links,
                                    [src |-> src, src_ori |-> src_ori,
                                     dst |-> dst, dst_ori |-> dst_ori])]
        /\ UNCHANGED iter

Froze(r) ==
    /\ G' = r.g
    /\ ret' = Ret("freeze", r.r)
    /\ hist' = [hist EXCEPT !.nfreeze = hist.nfreeze + 1,
                            !.pool = IF r.r = "G" THEN G ELSE hist.pool,
                            !.acv = IF r.r = "G" THEN r.g ELSE hist.acv]

Freeze ==
    \E mode \in SortModes :
        /\ Usable /\ NoOpenIter
        /\ hist.nfreeze < hist.budget.freeze
        /\ Froze(gref_freeze_pool(G, mode))
        /\ UNCHANGED iter

Returned(op, r) == G' = r.g /\ ret' = Ret(op, r.r)

Melt ==
    \E realloc \in ReallocOutcomes :
        /\ Usable /\ NoOpenIter
        /\ Returned("melt", gref_melt_archive(G, realloc))
        /\ UNCHANGED <<iter, hist>>

Built(r) ==
    /\ Returned("build_index", r)
    /\ hist' = [hist EXCEPT !.v = IF r.r = "G" THEN r.v ELSE hist.v]

BuildIndex ==
    \E mode \in SortModes, garbage \in GarbageWords, ub \in ShiftOutcomes :
        /\ Usable /\ NoOpenIter
        /\ Built(gref_build_index(G, mode, garbage, ub))
        /\ UNCHANGED iter

DisableIndex ==
    /\ Usable /\ NoOpenIter
    /\ Returned("disable_index", gref_disable_index(G))
    /\ UNCHANGED <<iter, hist>>

Matched(op, arg, r) ==
    /\ G' = [G EXCEPT !.fault = r.fault]
    /\ ret' = IF r.fault THEN Ret(op, "fault")
              ELSE [op |-> op, val |-> "slice", res |-> r, arg |-> arg]

Match ==
    \E seq \in [1..G.k -> QueryChars] :
        /\ Usable /\ NoOpenIter
        /\ Matched("match", seq, gref_match(G, seq))
        /\ UNCHANGED <<iter, hist>>

Match2bit ==
    \E w \in 0..(Pow(4, G.k) + 1) :
        /\ Usable /\ NoOpenIter
        /\ Matched("match_2bit", w, gref_match_2bitpacked(G, w))
        /\ UNCHANGED <<iter, hist>>

\* the iterator is the caller's to create on an archive or an index
IterInit ==
    /\ Usable /\ NoOpenIter
    /\ G.type \in {GREF_ACV, GREF_IDX}
    /\ iter' = gref_iter_init(G)
    /\ ret' = Ret("iter_init", "iter")
    /\ UNCHANGED <<G, hist>>

Stepped(r) == iter' = r.it /\ ret' = Ret("iter_next", r.t)

IterNext ==
    \E garbage \in GarbageWords :
        /\ Usable
        /\ iter.open /\ ~iter.fault
        /\ Stepped(gref_iter_next(G, iter, garbage))
        /\ UNCHANGED <<G, hist>>

IterClean ==
    /\ Usable
    /\ iter.open /\ ~iter.fault
    /\ iter' = Dropped(gref_iter_clean(iter))
    /\ ret' = Ret("iter_clean", 0)
    /\ UNCHANGED <<G, hist>>

Accessors ==
    /\ Usable /\ NoOpenIter
    /\ ret' = Ret("accessors",
                  [section_cnt |-> gref_get_section_cnt(G),
                   total_len |-> gref_get_total_len(G)])
    /\ UNCHANGED <<G, iter, hist>>

Next ==
    \/ AppendSegment
    \/ AppendLink
    \/ Freeze
    \/ Melt
    \/ BuildIndex
    \/ DisableIndex
    \/ Match
    \/ Match2bit
    \/ IterInit
    \/ IterNext
    \/ IterClean
    \/ Accessors

Spec == Init /\ [][Next]_vars

(***************************************************************************)
(* Pool operations only, with more link calls.                             *)
(***************************************************************************)
InitPool ==
    Start(gref_init_pool(GREF_PARAMS(MaxK)),
          Budget(MaxSegCalls, MaxPoolLinkCalls, MaxFreeze))

\* the appends of a caller that keeps to the states the interface names
\* for them
PoolAppendSegment == G.type = GREF_POOL /\ AppendSegment
PoolAppendLink == G.type = GREF_POOL /\ AppendLink

NextPool ==
    \/ PoolAppendSegment
    \/ PoolAppendLink
    \/ Freeze
    \/ Melt

SpecPool == InitPool /\ [][NextPool]_vars

\* the same with several append_segment calls in a run
\* in either input encoding, both copied
InitSeg ==
    \E seq_format \in {gref_seq_format.GREF_ASCII, gref_seq_format.GREF_4BIT} :
        Start(gref_init_pool([GREF_PARAMS(MaxK) EXCEPT !.seq_format = seq_format]),
              Budget(MaxPoolSegCalls, MaxLinkCalls, MaxSegFreeze))

SpecSeg == InitSeg /\ [][NextPool]_vars

(***************************************************************************)
(* The walker and the index on archives of a family of graphs: one segment *)
(* over the whole alphabet, or two shorter segments and the links between  *)
(* them.  A run starts from the archive the pool operations make of the    *)
(* graph and makes no further append or freeze.                            *)
(***************************************************************************)
IdxAlphabet == {chA, chC, chR, chV, chN}
LinkedAlphabet == {chA, chC, chN}

Seg(name, s) == [name |-> name, s |-> s]
Lnk(src, src_ori, dst, dst_ori) ==
    [src |-> src, src_ori |-> src_ori, dst |-> dst, dst_ori |-> dst_ori]

IdxLinks ==
    {<<>>, <<Lnk("a", 0, "b", 0)>>, <<Lnk("a", 0, "b", 1)>>,
     <<Lnk("a", 0, "b", 0), Lnk("b", 0, "a", 0)>>,
     <<Lnk("a", 0, "b", 0), Lnk("a", 0, "b", 1)>>}

IdxGraphs ==
    {[segs |-> <<Seg("a", s)>>, links |-> <<>>] :
        s \in SeqsUpTo(IdxAlphabet, MaxIdxSegLen)}
    \cup
    {[segs |-> <<Seg("a", st[1]), Seg("b", st[2])>>, links |-> l] :
        st \in SeqsUpTo(LinkedAlphabet, MaxLinkedSegLen)
                \X SeqsUpTo(LinkedAlphabet, MaxLinkedSegLen),
        l \in IdxLinks}
    \cup
    {[segs |-> <<Seg("a", s)>>, links |-> <<Lnk("a", 0, "a", ori)>>] :
        s \in SeqsUpTo(LinkedAlphabet, MaxLinkedSegLen), ori \in Oris}

RECURSIVE append_segments(_, _)
append_segments(pool, segs) ==
    IF segs = <<>> THEN pool
    ELSE append_segments(gref_append_segment(pool, Head(segs).name, Head(segs).s),
                         Tail(segs))

RECURSIVE append_links(_, _)
append_links(pool, links) ==
    IF links = <<>> THEN pool
    ELSE append_links(
            gref_append_link(pool, Head(links).src, Head(links).src_ori,
                             Head(links).dst, Head(links).dst_ori),
            Tail(links))

GraphPool(k, gr) ==
    append_links(append_segments(gref_init_pool(GREF_PARAMS(k)), gr.segs), gr.links)

StartFrozen(gr, pool, acv) ==
    /\ G = acv
    /\ iter = NoIter
    /\ ret = Ret("freeze", "G")
    /\ hist = [nseg |-> Len(gr.segs), nlink |-> Len(gr.links), nfreeze |-> 1,
               links |-> gr.links, segs |-> gr.segs,
               pool |-> pool, acv |-> acv, v |-> <<>>,
               budget |-> Budget(Len(gr.segs), Len(gr.links), 1)]

StartGraph(gr, pool, mode) == StartFrozen(gr, pool, gref_freeze_pool(pool, mode).g)

InitIdx ==
    \E k \in 1..MaxK, gr \in IdxGraphs, mode \in SortModes :
        StartGraph(gr, GraphPool(k, gr), mode)

NextIdx ==
    \/ BuildIndex
    \/ DisableIndex
    \/ Match
    \/ Match2bit
    \/ IterInit
    \/ IterNext
    \/ IterClean

SpecIdx == InitIdx /\ [][NextIdx]_vars

\* one iterator and a caller that keeps calling iter_next; hist.v is the
\* tuples the calls have returned before the terminal tuple
WalkNext ==
    \E garbage \in GarbageWords :
        /\ Usable
        /\ iter.open /\ ~iter.fault
        /\ Stepped(gref_iter_next(G, iter, garbage))
        /\ hist' = [hist EXCEPT !.v = IF iter'.fault \/ ret'.val = TerminalTuple
                                      THEN hist.v ELSE Append(hist.v, ret'.val)]
        /\ UNCHANGED G

NextWalk ==
    \/ IterInit
    \/ WalkNext

SpecWalk == InitIdx /\ [][NextWalk]_vars /\ WF_vars(WalkNext)

(***************************************************************************)
(* The graphs of the unit tests at k = 3: sec0 = GGRA alone, and the graph *)
(* of "seed iteration" (sec0 = GGRA, sec1 = M, sec2 = ACVVGTGT, the links  *)
(* sec0 -> sec1, sec1 -> sec2, sec0 -> sec2), built by the calls in the    *)
(* order of the test.                                                      *)
(***************************************************************************)
TestK == 3

TestGraphs ==
    {[segs |-> <<Seg("sec0", <<chG, chG, chR, chA>>)>>, links |-> <<>>,
      calls |-> <<Seg("sec0", <<chG, chG, chR, chA>>)>>],
     [segs |-> <<Seg("sec0", <<chG, chG, chR, chA>>), Seg("sec1", <<77>>),
                 Seg("sec2", <<chA, chC, chV, chV, chG, chT, chG, chT>>)>>,
      links |-> <<Lnk("sec0", 0, "sec1", 0), Lnk("sec1", 0, "sec2", 0),
                  Lnk("sec0", 0, "sec2", 0)>>,
      calls |-> <<Seg("sec0", <<chG, chG, chR, chA>>), Seg("sec1", <<77>>),
                  Lnk("sec0", 0, "sec1", 0), Lnk("sec1", 0, "sec2", 0),
                  Seg("sec2", <<chA, chC, chV, chV, chG, chT, chG, chT>>),
                  Lnk("sec0", 0, "sec2", 0)>>]}

RECURSIVE append_calls(_, _)
append_calls(pool, calls) ==
    IF calls = <<>> THEN pool
    ELSE append_calls(
            IF "name" \in DOMAIN Head(calls)
            THEN gref_append_segment(pool, Head(calls).name, Head(calls).s)
            ELSE gref_append_link(pool, Head(calls).src, Head(calls).src_ori,
                                  Head(calls).dst, Head(calls).dst_ori),
            Tail(calls))

InitTest ==
    \E gr \in TestGraphs, mode \in SortModes :
        StartGraph(gr, append_calls(gref_init_pool(GREF_PARAMS(TestK)), gr.calls), mode)

\* the words of the tests, a word that is in no test graph, and words with
\* a character that is no base
TestWords ==
    {<<chG, chG, chA>>, <<chG, chG, chG>>, <<chG, chA, chA>>, <<chG, chG, chT>>,
     <<chA, chA, chA>>, <<chA, chA, chC>>, <<chG, chA, chC>>, <<chT, chG, chT>>,
     <<88, 88, 88>>, <<chG, 88, chA>>}

MatchWord ==
    \E seq \in TestWords :
        /\ Usable /\ NoOpenIter
        /\ Matched("match", seq, gref_match(G, seq))
        /\ UNCHANGED <<iter, hist>>

NextTest ==
    \/ BuildIndex
    \/ DisableIndex
    \/ MatchWord
    \/ IterInit
    \/ IterNext
    \/ IterClean

SpecTest == InitTest /\ [][NextTest]_vars

(***************************************************************************)
(* gref_init_pool as a function of its parameter record                    *)
(***************************************************************************)
\* init_pool as a function of its argument: a null pointer, or a record
\* of k (0: unset; 33, 40: too long) and three options (0: unset; 1, 2: the
\* enumerators; 3: beyond them)
InitParams ==
    /\ G = NoG
    /\ iter = NoIter
    /\ hist = [nseg |-> 0]
    /\ \E params \in {[null |-> TRUE]} \cup
            [null : {FALSE}, k : {0, 1, 2, 14, 32, 33, 40},
             seq_format : 0..3, copy_mode : 0..3, index_mode : 0..3] :
          ret = [op |-> "params", val |-> "none", arg |-> params]

CallInitPool ==
    /\ ret.op = "params"
    /\ G' = gref_init_pool(ret.arg)
    /\ ret' = [op |-> "init_pool", val |-> IF G'.alive THEN "G" ELSE "NULL",
               arg |-> ret.arg]
    /\ UNCHANGED <<iter, hist>>

SpecInit == InitParams /\ [][CallInitPool]_vars

(***************************************************************************)
(* gref_build_kmer_idx_table as a function of k and of the sorted tuple    *)
(* vector, for k-mer lengths below and above the width of an int           *)
(***************************************************************************)
\* (the lengths between have tables of 4^k + 1 entries, too long to build here)
KmerLens == {1, 2, 3, 16, 17, 32}

IdxTuples == [kmer : 0..MaxTupleKmer, gid : {0}, pos : {0, 1}]

Sorted(arr) == \A i \in 1..(Len(arr) - 1) : arr[i].kmer <= arr[i + 1].kmer

\* the vectors the walker can have produced for k: words of 2k bits
TupleVectors(k) ==
    {arr \in SeqsUpTo(IdxTuples, MaxTuples) :
        Sorted(arr) /\ (k = 1 => \A i \in 1..Len(arr) : arr[i].kmer < 4)}

InitK ==
    \E k \in KmerLens : Start(gref_init_pool(GREF_PARAMS(k)), Budget(0, 0, 0))

BuildKmerIdxTable ==
    \E arr \in TupleVectors(G.k), ub \in ShiftOutcomes :
        /\ Usable /\ G.type # GREF_IDX
        /\ ret' = [op |-> "build_kmer_idx_table", arg |-> arr,
                   val |-> gref_build_kmer_idx_table(G, arr, ub)]
        /\ UNCHANGED <<G, iter, hist>>

\* gref_build_index from the sorted vector on: the tables, the mask, the tag
BuildIndexSorted ==
    \E arr \in TupleVectors(G.k), ub \in ShiftOutcomes :
        /\ Usable /\ G.type # GREF_IDX
        /\ Returned("build_index", index_sorted(G, arr, arr, ub))
        /\ UNCHANGED <<iter, hist>>

\* words with bits above the low 2k for the short k
\* (1588444911 is 0xDEADBEEF without bit 31, which no word of the model holds)
Match2bitWord ==
    \E w \in {0, 5, 47, 63, 64, 69, 1588444911} :
        /\ Usable /\ G.type = GREF_IDX
        /\ Matched("match_2bit", w, gref_match_2bitpacked(G, w))
        /\ UNCHANGED <<iter, hist>>

NextK == BuildKmerIdxTable \/ BuildIndexSorted \/ Match2bitWord

SpecK == InitK /\ [][NextK]_vars

(***************************************************************************)
(* The k-mer word of a frame at its full width, for k-mer lengths up to    *)
(* 32: a uint64_t is shown as its 32 digits of 2 bits, the lowest first.   *)
(* One frame reads one segment of single bases (kmer_occ stays 1, no       *)
(* successor is entered).                                                  *)
(***************************************************************************)
\* longest segment read
MaxWordSegLen == 33

word_zero == [i \in 1..32 |-> 0]
word_ones == [i \in 1..32 |-> 3]

\* kmer >> 2
word_shr2(w) == [i \in 1..32 |-> IF i < 32 THEN w[i + 1] ELSE 0]

\* a | b
word_or(a, b) ==
    [i \in 1..32 |-> MAX2(a[i] % 2, b[i] % 2) + 2 * MAX2(a[i] \div 2, b[i] \div 2)]

\* encode_2bit[c][j] << shift_len: the uint8_t is promoted to int and the
\* shift is an int shift.  Up to 3 << 28 the value fits.  From there on the
\* shift is undefined: the build computes it at the width of the word it is
\* or-ed into ("wide"), or in 32 bits with the count taken modulo 32 and the
\* int sign-extended ("int"), or gives 0 for a count of 32 or more ("zero")
WordShiftOutcomes == {"wide", "int", "zero"}

word_shl(code, shift_len, ub) ==
    IF ub = "wide" \/ shift_len < 30
    THEN [i \in 1..32 |-> IF i = (shift_len \div 2) + 1 THEN code ELSE 0]
    ELSE IF ub = "zero" /\ shift_len >= 32 THEN word_zero
    ELSE [i \in 1..32 |->
            IF i = ((shift_len % 32) \div 2) + 1 THEN code
            ELSE IF i > 16 /\ (shift_len % 32) = 30 /\ code >= 2 THEN 3
            ELSE 0]

\* gref_iter_append_base for a code of one base on a frame of one word
word_append_base(kmer, c, shift_len, ub) ==
    word_or(word_shr2(kmer), word_shl(At0(At0(iter_encode_2bit, c), 0), shift_len, ub))

WordLens == {1, 2, 15, 16, 32}

\* runs of T, with another base at the first or the last place or without
WordSegs ==
    UNION {{[i \in 1..n |-> IF i = at THEN c ELSE chT] : at \in {1, n}, c \in {chA, chC, chG, chT}}
           : n \in 1..MaxWordSegLen}

InitWord ==
    /\ \E k \in WordLens : G = gref_init_pool(GREF_PARAMS(k))
    /\ iter = NoIter
    /\ hist = [nseg |-> 0]
    /\ \E seq \in WordSegs, ub \in WordShiftOutcomes :
          ret = [op |-> "iter_init", seq |-> seq, ub |-> ub, pos |-> 0,
                 kmer |-> word_zero]

\* one fetch of the frame: the next base, stored as gref_copy_seq_ascii
\* stores it, is appended to the word
FetchBase ==
    /\ ret.pos < Len(ret.seq)
    /\ ret' = [ret EXCEPT
                !.op = "fetch",
                !.pos = ret.pos + 1,
                !.kmer = word_append_base(ret.kmer,
                                          gref_encode_4bit(At0(ret.seq, ret.pos)),
                                          2 * (G.k - 1), ret.ub)]
    /\ UNCHANGED <<G, iter, hist>>

SpecWord == InitWord /\ [][FetchBase]_vars

(***************************************************************************)
(* The packed-buffer builder of src/ref.c: ref_prec_init and               *)
(* ref_append_sequence.  A uint64_t of the buffer is 16 codes of 4 bits,   *)
(* the lowest first.                                                       *)
(***************************************************************************)
MaxRefCalls == 3
MaxRefSeqLen == 9

\* the seed lengths the builder is initialised with: the unit tests' and one
\* it refuses
RefSeedLengths == {3, 33}

NoPrec == [ok |-> FALSE, seq |-> <<>>, seq_rem |-> 0]

\* ref_encode_4bit: the table of gref_encode_4bit, N and the sentinel are 0
ref_encode_4bit(c) == gref_encode_4bit(c)

ref_word_zero == [i \in 1..16 |-> 0]

\* w << rem and w >> rem on a uint64_t.  A count of 64 is undefined: the
\* build gives the word unchanged (count taken modulo 64) or 0
RefShiftOutcomes == {"mod", "zero"}

ref_shl(w, rem, ub) ==
    IF rem >= 64 THEN (IF ub = "mod" THEN w ELSE ref_word_zero)
    ELSE [i \in 1..16 |-> IF i > rem \div 4 THEN w[i - rem \div 4] ELSE 0]

ref_shr(w, rem, ub) ==
    IF rem >= 64 THEN (IF ub = "mod" THEN w ELSE ref_word_zero)
    ELSE [i \in 1..16 |-> IF i + rem \div 4 <= 16 THEN w[i + rem \div 4] ELSE 0]

\* kv_init(seq); kv_push(seq, 0); seq_rem = 64
ref_prec_init(params) ==
    IF params.seed_length > 32 THEN NoPrec
    ELSE [ok |-> TRUE, seq |-> <<ref_word_zero>>, seq_rem |-> 64]

RECURSIVE ref_push_bases(_, _, _)
\* the loop of ref_append_sequence on the registers [seq, arr, rem]
ref_push_bases(r, s, i) ==
    IF i > Len(s) THEN r
    ELSE LET arr == [j \in 1..16 |-> IF j < 16 THEN r.arr[j + 1]
                                     ELSE ref_encode_4bit(s[i])]
         IN  IF r.rem - 4 = 0
             THEN ref_push_bases(
                     [seq |-> Append([r.seq EXCEPT ![Len(r.seq)] = arr], ref_word_zero),
                      arr |-> ref_word_zero, rem |-> 64], s, i + 1)
             ELSE ref_push_bases([r EXCEPT !.arr = arr, !.rem = r.rem - 4], s, i + 1)

ref_append_sequence(prec, s, ub) ==
    LET rem  == prec.seq_rem
        arr  == ref_shl(prec.seq[Len(prec.seq)], rem, ub)
        base == (64 * Len(prec.seq) - rem) \div 4
        r    == ref_push_bases([seq |-> prec.seq, arr |-> arr, rem |-> rem], s, 1)
    IN  [prec |-> [prec EXCEPT
                    !.seq_rem = r.rem,
                    !.seq = [r.seq EXCEPT ![Len(r.seq)] = ref_shr(r.arr, r.rem, ub)]],
         iv |-> [base |-> base, tail |-> (64 * Len(r.seq) - r.rem) \div 4]]

\* the sequences appended: runs of one character
RefSeqs == {Rep(n, c) : n \in 0..MaxRefSeqLen, c \in {chA, chT}}

InitRef ==
    /\ \E seed_length \in RefSeedLengths : G = ref_prec_init([seed_length |-> seed_length])
    /\ iter = NoIter
    /\ \E ub \in RefShiftOutcomes : hist = [ncall |-> 0, ub |-> ub, len |-> 0]
    /\ ret = [op |-> "ref_prec_init"]

AppendSequence ==
    /\ G.ok
    /\ hist.ncall < MaxRefCalls
    /\ \E s \in RefSeqs :
          LET a == ref_append_sequence(G, s, hist.ub)
          IN  /\ G' = a.prec
              /\ ret' = [op |-> "ref_append_sequence", iv |-> a.iv]
              /\ hist' = [hist EXCEPT !.ncall = hist.ncall + 1,
                                      !.len = hist.len + Len(s)]
    /\ UNCHANGED iter

SpecRef == InitRef /\ [][AppendSequence]_vars

(***************************************************************************)
(* The size of the partial k-mer set in the two expansion routines,        *)
(* gref_iter_append_base (src/gref.c) and ref_pack_kmer_sec_update         *)
(* (src/ref.c).  cnt_arr, a uint64_t of 32 fields of 2 bits, is the        *)
(* sequence of its fields, the lowest (newest) first.                      *)
(***************************************************************************)
MaxOccAmbig == 2
MaxOccTail == 2

OccLens == {1, 2, 3, 32}

\* the codes appended: A, the gap N, R (2 bases) and V (3 bases)
OccCodes == {1, 0, 5, 7}

cnt_zero == [i \in 1..32 |-> 0]

\* (cnt_arr << 2) | pcnt
cnt_push(cnt_arr, pcnt) == [i \in 1..32 |-> IF i = 1 THEN pcnt ELSE cnt_arr[i - 1]]

\* 0x03 & (cnt_arr >> n).  A count of 64 is undefined on a uint64_t: the
\* build takes the count modulo 64 or gives 0
CntShiftOutcomes == {"mod", "zero"}

cnt_field(cnt_arr, n, ub) ==
    IF n >= 64 THEN (IF ub = "mod" THEN cnt_arr[1] ELSE 0)
    ELSE cnt_arr[(n \div 2) + 1]

\* occ *= pcnt; if(shrink_skip > 1) occ /= shrink_skip
occ_update(occ, pcnt, shrink_skip) ==
    IF shrink_skip > 1 THEN (occ * pcnt) \div shrink_skip ELSE occ * pcnt

\* the counters of gref_iter_append_base: shrink_skip is read at
\* shift_len + 2
iter_append_occ(w, c, shift_len, ub) ==
    [cnt_arr |-> cnt_push(w.cnt_arr, At0(popcnt_table, c)),
     occ |-> occ_update(w.occ, At0(popcnt_table, c),
                cnt_field(cnt_push(w.cnt_arr, At0(popcnt_table, c)), shift_len + 2, ub))]

\* the counters of ref_pack_kmer_sec_update: shrink_skip is read at
\* shift_len
ref_pack_kmer_sec_update(w, c, shift_len, ub) ==
    [cnt_arr |-> cnt_push(w.cnt_arr, At0(popcnt_table, c)),
     occ |-> occ_update(w.occ, At0(popcnt_table, c),
                cnt_field(cnt_push(w.cnt_arr, At0(popcnt_table, c)), shift_len, ub))]

\* kmer_occ = 1, cnt_arr = 0 (gref_iter_init_stack); curr = 1, cnt_arr = 0
\* (ref_pack_kmer_sec)
InitOcc ==
    /\ \E k \in OccLens : G = [k |-> k, shift_len |-> 2 * (k - 1)]
    /\ iter = NoIter
    /\ \E routine \in {"gref_iter_append_base", "ref_pack_kmer_sec_update"},
          ub \in CntShiftOutcomes :
            hist = [routine |-> routine, ub |-> ub, win |-> <<>>, n |-> 0, amb |-> 0]
    /\ ret = [op |-> "init", w |-> [cnt_arr |-> cnt_zero, occ |-> 1]]

\* the base is recorded in hist.win, the widths of the bases of the window,
\* the newest first
Appended(c, w) ==
    /\ hist.n < G.k + MaxOccTail
    /\ At0(popcnt_table, c) # 1 => hist.amb < MaxOccAmbig
    /\ ret' = [op |-> "append_base", w |-> w]
    /\ hist' = [hist EXCEPT
                 !.n = hist.n + 1,
                 !.amb = hist.amb + (IF At0(popcnt_table, c) # 1 THEN 1 ELSE 0),
                 !.win = SubSeq(<<At0(popcnt_table, c)>> \o hist.win, 1,
                                MIN2(Len(hist.win) + 1, G.k))]
    /\ UNCHANGED <<G, iter>>

IterAppendBase ==
    /\ hist.routine = "gref_iter_append_base"
    /\ \E c \in OccCodes : Appended(c, iter_append_occ(ret.w, c, G.shift_len, hist.ub))

PackKmerSecUpdate ==
    /\ hist.routine = "ref_pack_kmer_sec_update"
    /\ \E c \in OccCodes : Appended(c, ref_pack_kmer_sec_update(ret.w, c, G.shift_len, hist.ub))

NextOcc == IterAppendBase \/ PackKmerSecUpdate

SpecOcc == InitOcc /\ [][NextOcc]_vars

(***************************************************************************)
(* The iterator buffer: the frames lie one behind the other in the         *)
(* iter_init_stack_size 64-bit words allocated behind the iterator header. *)
(***************************************************************************)
\* sizeof(struct gref_iter_stack_s) in 64-bit words
FrameHeaderWords == 8

\* MAX2(1024, (int64_t)pow(3.0, p.k * 0.5))
iter_init_stack_size(k) ==
    MAX2(1024, CHOOSE n \in 0..Pow(3, (k + 1) \div 2) :
                    n * n <= Pow(3, k) /\ (n + 1) * (n + 1) > Pow(3, k))

\* the words from the root frame to the end of the top frame: a frame
\* starts behind the kmer_occ words of the frame before it
\* (gref_iter_add_stack), the top frame reaches as far as its kmer[] has
\* been written
RECURSIVE StackWords(_)
StackWords(st) ==
    IF st = <<>> THEN 0
    ELSE IF Len(st) = 1 THEN FrameHeaderWords + Len(st[1].kmer)
    ELSE FrameHeaderWords + Head(st).kmer_occ + StackWords(Tail(st))

BufLens == {6, 7}

\* segments of 3-way codes long enough for one window, alone or with a
\* successor of one base
BufGraphs ==
    {[segs |-> <<Seg("a", Rep(n, chV))>>, links |-> <<>>] : n \in BufLens}
    \cup
    {[segs |-> <<Seg("a", Rep(n, chV)), Seg("b", <<chA>>)>>,
      links |-> <<Lnk("a", 0, "b", 0)>>] : n \in BufLens}

InitBuf ==
    \E k \in BufLens, gr \in BufGraphs :
        StartGraph(gr, GraphPool(k, gr), "stable")

\* a walk goes on as long as its frames are inside the buffer; what a
\* write behind the buffer does to the walk is not followed
BufIterNext ==
    /\ iter.open
    /\ StackWords(iter.stack) <= iter_init_stack_size(G.k)
    /\ IterNext

NextBuf ==
    \/ IterInit
    \/ BufIterNext

SpecBuf == InitBuf /\ [][NextBuf]_vars

(***************************************************************************)
(* Properties of the state tag and of misuse (checked under Spec).         *)
(***************************************************************************)
Transition(op, from, to) ==
    /\ ret'.op = op /\ ret'.val = "G"
    /\ G.type = from /\ G'.type = to /\ G'.alive

Transitions ==
    \/ Transition("freeze", GREF_POOL, GREF_ACV)
    \/ Transition("melt", GREF_ACV, GREF_POOL)
    \/ Transition("build_index", GREF_ACV, GREF_IDX)
    \/ Transition("disable_index", GREF_IDX, GREF_ACV)

Converted ==
    /\ ret'.op \in {"freeze", "melt", "build_index", "disable_index"}
    /\ ret'.val = "G"

C1_TagStep ==
    /\ G'.type # G.type => Transitions
    /\ Converted => Transitions

\* C1: the state tag of G changes only by a successful freeze (POOL to
\* ACV), melt (ACV to POOL), build_index (ACV to IDX) or disable_index (IDX
\* to ACV); a conversion that succeeds returns the object in its target
\* state; appends, iterator calls, queries and accessors never change it.
C1_StateTag == [][C1_TagStep]_vars

\* all four conversions have succeeded in one run: disable_index returned G
\* after a second freeze, which needs a melt and a build_index before it
C1_Witness ==
    /\ ret.op = "disable_index" /\ ret.val = "G"
    /\ G.type = GREF_ACV /\ hist.nfreeze = 2

Misuse ==
    \/ ret'.op \in {"append_segment", "append_link"} /\ G.type \in {GREF_ACV, GREF_IDX}
    \/ ret'.op \in {"match", "match_2bit"} /\ G.type \in {GREF_POOL, GREF_ACV}

FailedCleanly ==
    IF ret'.op \in {"append_segment", "append_link"} THEN ret'.val = -1
    ELSE ret'.val = "slice" /\ ret'.res.len = 0

\* C10: append_segment and append_link on a G in ACV or IDX, and match and
\* match_2bit on a G in POOL or ACV, fail cleanly (-1, an empty result) and
\* leave G as it was.
C10_MisuseFailsCleanly == [][Misuse => G' = G /\ FailedCleanly]_vars

(***************************************************************************)
(* Properties of the link table (checked under SpecPool).                  *)
(***************************************************************************)
Count(seq, x) == Cardinality({i \in 1..Len(seq) : seq[i] = x})

Range(seq) == {seq[i] : i \in 1..Len(seq)}

\* the two sequences hold the same elements the same number of times
SameBag(s, t) ==
    /\ Len(s) = Len(t)
    /\ \A x \in Range(s) \cup Range(t) : Count(s, x) = Count(t, x)

link_idx_base(g, gid) == sec_half_get(g.sec, gid)

\* L[link_idx_base[gid] .. link_idx_base[gid + 1]]
Successors(g, gid) ==
    SubSeq(g.link_table, link_idx_base(g, gid) + 1, link_idx_base(g, gid + 1))

\* the to_gid of the pairs of link whose from_gid is gid, in buffer order
Targets(link, gid) ==
    LET from_gid(p) == p.from = gid
        to_gid == [i \in 1..Len(link) |-> link[i].to]
        at == {i \in 1..Len(link) : from_gid(link[i])}
        RECURSIVE pick(_)
        pick(i) == IF i > Len(link) THEN <<>>
                   ELSE (IF i \in at THEN <<to_gid[i]>> ELSE <<>>) \o pick(i + 1)
    IN  pick(1)

Frozen == ret.op = "freeze" /\ ret.val = "G"

\* C7: after a successful freeze link_idx_base is non-decreasing over the
\* gids 0 .. 2*(tail_id+1), is 0 at gid 0 and |L| at the last gid, and the
\* slice of L between link_idx_base[gid] and link_idx_base[gid+1] holds
\* exactly the to_gid of the pool's pairs whose from_gid is gid.
C7_LinkIndex ==
    Frozen =>
        /\ link_idx_base(G, 0) = 0
        /\ link_idx_base(G, 2 * (G.tail_id + 1)) = Len(G.link_table)
        /\ Len(G.link_table) = Len(hist.pool.link)
        /\ \A gid \in 0..(2 * (G.tail_id + 1) - 1) :
            /\ link_idx_base(G, gid) <= link_idx_base(G, gid + 1)
            /\ SameBag(Successors(G, gid), Targets(hist.pool.link, gid))

\* a frozen graph where one gid has two successors, a lower gid has none
\* and a higher gid has one
C7_Witness ==
    /\ Frozen
    /\ \E g1, g2, g3 \in 0..(2 * G.tail_id + 1) :
        /\ g1 < g2 /\ g2 < g3
        /\ Len(Successors(G, g1)) = 0
        /\ Len(Successors(G, g2)) = 2
        /\ Len(Successors(G, g3)) = 1

gid_of(keys, name, ori) == _encode_id(hmap_find(keys, name), ori)

\* the two pairs of one append_link call
PairsOf(keys, l) ==
    << [from |-> gid_of(keys, l.src, l.src_ori), to |-> gid_of(keys, l.dst, l.dst_ori)],
       [from |-> gid_of(keys, l.dst, 1 - l.dst_ori),
        to |-> gid_of(keys, l.src, 1 - l.src_ori)] >>

RECURSIVE AllPairs(_, _)
AllPairs(keys, links) ==
    IF links = <<>> THEN <<>>
    ELSE PairsOf(keys, Head(links)) \o AllPairs(keys, Tail(links))

SingleLink ==
    /\ Len(hist.links) = 1
    /\ hist.links[1].src_ori = 0 /\ hist.links[1].dst_ori = 0
    /\ hmap_find(G.hmap, hist.links[1].src) = 0
    /\ hmap_find(G.hmap, hist.links[1].dst) = 1

\* C8: in POOL the pair buffer holds, for every append_link call made, the
\* pair of the call and its twin, two pairs per call; after freeze, a graph
\* with the single link sec0+ -> sec1+ gives rev(sec1+) exactly one
\* successor, rev(sec0+).
C8_Twins ==
    /\ (G.alive /\ ~G.fault /\ G.type = GREF_POOL) =>
            /\ Len(G.link) = 2 * hist.nlink
            /\ SameBag(G.link, AllPairs(G.hmap, hist.links))
            /\ hist.nfreeze = 0 => G.link = AllPairs(G.hmap, hist.links)
    /\ (Frozen /\ SingleLink) => Successors(G, 3) = <<1>>

\* the graph of the scenario, frozen
C8_Witness == Frozen /\ SingleLink /\ Len(G.link_table) = 2

Melted == ret'.op = "melt" /\ ret'.val = "G" /\ G = hist.acv

SameSections(g, p) ==
    /\ g.tail_id = p.tail_id
    /\ g.seq = p.seq
    /\ \A id \in 0..(p.tail_id - 1) :
        gref_get_section(g, id) = gref_get_section(p, id)

SameTable(f, a) ==
    /\ f.link_table = a.link_table
    /\ \A gid \in 0..(2 * (a.tail_id + 1)) : link_idx_base(f, gid) = link_idx_base(a, gid)

C9_MeltStep ==
    Melted =>
        /\ G'.type = GREF_POOL /\ ~G'.fault
        /\ SameBag(G'.link, hist.pool.link)
        /\ SameSections(G', hist.pool)
        /\ \A mode \in SortModes :
            \A f \in {gref_freeze_pool(G', mode).g} : SameTable(f, hist.acv)

\* an append_link made in the pool that a melt gave back
AppendedAfterMelt ==
    /\ ret'.op = "append_link" /\ hist.nfreeze > 0
    /\ G.type = GREF_POOL /\ ~G.fault

C9_AppendStep ==
    AppendedAfterMelt =>
        /\ ~G'.fault
        /\ Len(G'.link) = Len(G.link) + 2
        /\ SubSeq(G'.link, 1, Len(G.link)) = G.link
        /\ SubSeq(G'.link, Len(G.link) + 1, Len(G'.link))
           = PairsOf(G'.hmap, hist'.links[Len(hist'.links)])

\* C9: melt(freeze(P)) is a POOL with the multiset of P's pairs and with
\* P's sections and sequence buffer, freezing it again gives the L and
\* the link_idx_base of the first freeze, and an append_link after the
\* melt adds its two pairs to the restored ones.
C9_MeltRestores == [][C9_MeltStep /\ C9_AppendStep]_vars

\* a pool in which one gid has two different successors, frozen and melted
C9_Witness ==
    /\ ret.op = "melt" /\ ret.val = "G" /\ hist.nfreeze = 1
    /\ G.type = GREF_POOL /\ ~G.fault /\ Len(G.link) = 4
    /\ \E i, j \in 1..4 : G.link[i].from = G.link[j].from /\ G.link[i].to # G.link[j].to

(***************************************************************************)
(* Properties of the walker and of the index (checked under SpecIdx).      *)
(***************************************************************************)
\* the (gid, pos) records of the tuples of v whose kmer is w, in the order
\* of v
RECURSIVE RecordsOf(_, _)
RecordsOf(v, w) ==
    IF v = <<>> THEN <<>>
    ELSE (IF Head(v).kmer = w THEN <<[gid |-> Head(v).gid, pos |-> Head(v).pos]>>
          ELSE <<>>) \o RecordsOf(Tail(v), w)

\* C2: in IDX, match_2bit(w) returns the slice of kmer_table between
\* kmer_idx_table[w'] and kmer_idx_table[w'+1], w' being w cut to its 2k low
\* bits, and the slice holds exactly the (gid, pos) of the walker's tuples
\* whose kmer is w': none missing, none of another word, length 0 for a
\* word that does not occur.
C2_MatchSlice ==
    (ret.op = "match_2bit" /\ G.type = GREF_IDX) =>
        /\ ret.val = "slice"
        /\ ret.res.len = Len(ret.res.hits)
        /\ SameBag(ret.res.hits, RecordsOf(hist.v, ret.arg % Pow(4, G.k)))

\* a word above the mask whose masked value occurs twice in the graph
C2_Witness ==
    /\ ret.op = "match_2bit" /\ G.type = GREF_IDX /\ ret.val = "slice"
    /\ ret.arg >= Pow(4, G.k)
    /\ ret.res.len = 2
    /\ \E w \in 0..(Pow(4, G.k) - 1) : RecordsOf(hist.v, w) = <<>>

\* the number of concrete bases a 4-bit code stands for; none for a gap (0)
\* and for 0x0F
Width(c) == IF c \in {0, 15} THEN 0 ELSE At0(popcnt_table, c)

\* the code of base j of the oriented segment gid, read in its orientation
\* (a complemented code has the width of the code)
BaseAt(acv, gid, j) ==
    IF _decode_dir(gid) = 0
    THEN At0(acv.seq, At0(acv.sec, _decode_id(gid)).base + j)
    ELSE At0(acv.seq, At0(acv.sec, _decode_id(gid)).base
                      + At0(acv.sec, _decode_id(gid)).len - 1 - j)

\* the number of concrete words of bases from .. from + n - 1 of gid
RECURSIVE RefProd(_, _, _, _)
RefProd(acv, gid, from, n) ==
    IF n = 0 THEN 1
    ELSE Width(BaseAt(acv, gid, from)) * RefProd(acv, gid, from + 1, n - 1)

\* the number of concrete words of need bases read through the successors
\* of gid, L[link_idx_base[gid] .. link_idx_base[gid+1]], and theirs
RECURSIVE RefTail(_, _, _, _)
RECURSIVE RefSum(_, _, _, _, _)
RefTail(acv, gid, need, fuel) ==
    IF need = 0 THEN 1
    ELSE IF fuel = 0 THEN 0
    ELSE RefSum(acv, gid, link_idx_base(acv, gid), need, fuel)

RefSum(acv, gid, j, need, fuel) ==
    IF j >= link_idx_base(acv, gid + 1) THEN 0
    ELSE LET g2 == At0(acv.link_table, j)
             take == MIN2(need, At0(acv.sec, _decode_id(g2)).len)
         IN  RefProd(acv, g2, 0, take) * RefTail(acv, g2, need - take, fuel - 1)
             + RefSum(acv, gid, j + 1, need, fuel)

\* the number of tuples of the reference enumeration at (2 * id, pos)
RefCount(acv, id, pos) ==
    LET take == MIN2(acv.k, At0(acv.sec, id).len - pos)
    IN  RefProd(acv, 2 * id, pos, take)
        * RefTail(acv, 2 * id, acv.k - take, acv.k)

TuplesAt(v, gid, pos) ==
    Cardinality({i \in 1..Len(v) : v[i].gid = gid /\ v[i].pos = pos})

Indexed == ret.op = "build_index" /\ ret.val = "G"

\* C3: the drained walker yields the reference enumeration: at every start
\* (2 * id, pos) of a section below tail_id as many tuples as there are
\* concrete words on the paths of k bases from there, none for a window
\* with a gap, and no tuple anywhere else.
C3_ReferenceEnumeration ==
    Indexed =>
        /\ \A id \in 0..(G.tail_id - 1) :
            \A pos \in 0..(At0(G.sec, id).len - 1) :
                TuplesAt(hist.v, 2 * id, pos) = RefCount(G, id, pos)
        /\ \A i \in 1..Len(hist.v) :
            /\ hist.v[i].gid % 2 = 0 /\ hist.v[i].gid < 2 * G.tail_id
            /\ hist.v[i].pos >= 0
            /\ hist.v[i].pos < At0(G.sec, hist.v[i].gid \div 2).len

Called(op) == ret.op = op /\ ret.val # "NULL"

Concrete(acv, id) ==
    \A j \in 0..(At0(acv.sec, id).len - 1) : BaseAt(acv, 2 * id, j) \in {1, 2, 4, 8}

\* the character of a concrete 4-bit code
Ascii(c) == CASE c = 1 -> chA [] c = 2 -> chC [] c = 4 -> chG [] OTHER -> chT

\* s[i .. i + k) as characters
Window(acv, id, i) == [j \in 1..acv.k |-> Ascii(BaseAt(acv, 2 * id, i + j - 1))]

\* C4: for a graph with a segment s of A/C/G/T only, after freeze and
\* build_index match(s[i..i+k)) contains (2 * id(s), i), for every i up to
\* len(s) - k.
C4_RoundTrip ==
    Called("build_index") =>
        \A id \in 0..(hist.acv.tail_id - 1) :
            Concrete(hist.acv, id) =>
                \A i \in 0..(At0(hist.acv.sec, id).len - hist.acv.k) :
                    /\ ret.val = "G"
                    /\ [gid |-> 2 * id, pos |-> i]
                       \in Range(gref_match(G, Window(hist.acv, id, i)).hits)

OneSegment(acv) == acv.tail_id = 1 /\ acv.link_table = <<>>

Ambiguous(acv) ==
    {j \in 0..(At0(acv.sec, 0).len - 1) : BaseAt(acv, 0, j) \notin {1, 2, 4, 8}}

\* C5: in a segment with one non-concrete base, at i, every window that
\* covers i yields 2 tuples for a 2-way code, 3 for a 3-way code and none
\* for N.
C5_Expansion ==
    (Indexed /\ OneSegment(G) /\ Cardinality(Ambiguous(G)) = 1) =>
        \A i \in Ambiguous(G) :
            \A pos \in 0..(At0(G.sec, 0).len - G.k) :
                (pos <= i /\ i < pos + G.k) =>
                    TuplesAt(hist.v, 0, pos) = Width(BaseAt(G, 0, i))

(***************************************************************************)
(* The size of the index table (checked under SpecK).                      *)
(***************************************************************************)
\* n = 4^k
RECURSIVE IsPow4(_, _)
IsPow4(n, k) == IF k = 0 THEN n = 1 ELSE n % 4 = 0 /\ IsPow4(n \div 4, k - 1)

\* C6: for every k in 1..32 and every tuple vector, the empty one included,
\* kmer_idx_table has 4^k + 1 entries, is non-decreasing, is 0 at index 0
\* and |kmer_table| at index 4^k.
C6_IdxTable ==
    ret.op = "build_kmer_idx_table" =>
        /\ IsPow4(Len(ret.val) - 1, G.k)
        /\ At0(ret.val, 0) = 0
        /\ At0(ret.val, Len(ret.val) - 1) = Len(ret.arg)
        /\ \A i \in 1..(Len(ret.val) - 1) : ret.val[i] <= ret.val[i + 1]


(***************************************************************************)
(* C11: a state conversion called in the wrong state                       *)
(***************************************************************************)
\* the step is freeze, melt, build_index or disable_index on a G whose state
\* does not permit it
WrongState ==
    /\ Usable
    /\ \/ ret'.op = "freeze" /\ G.type # GREF_POOL
       \/ ret'.op = "melt" /\ G.type # GREF_ACV
       \/ ret'.op = "build_index" /\ G.type # GREF_ACV
       \/ ret'.op = "disable_index" /\ G.type # GREF_IDX

\* nothing of g stays allocated and no pointer was released twice
Released(g) == ~g.alive /\ g.leaked = {} /\ ~g.fault

\* C11: freeze on a G not in POOL, melt on a G not in ACV, build_index on a G
\* not in ACV and disable_index on a G not in IDX return null, and G is then
\* unchanged or fully released.
C11_WrongStateReleases ==
    [][WrongState => ret'.val = "NULL" /\ (G' = G \/ Released(G'))]_vars
(***************************************************************************)
(* C12: the parameter records init_pool rejects                            *)
(***************************************************************************)
Rejected(params) ==
    \/ params.null
    \/ params.k > 32
    \/ params.seq_format \notin {0, gref_seq_format.GREF_ASCII, gref_seq_format.GREF_4BIT}
    \/ params.copy_mode \notin {0, gref_copy_mode.GREF_COPY, gref_copy_mode.GREF_NOCOPY}
    \/ params.index_mode \notin
            {0, gref_index_mode.GREF_INDEX_HASH, gref_index_mode.GREF_INDEX_ITER}
    \/ /\ params.copy_mode = gref_copy_mode.GREF_NOCOPY
       /\ params.seq_format \in {0, gref_seq_format.GREF_ASCII}

\* C12: init_pool returns null and creates no object when params is null,
\* k is above 32, an option lies outside its enumeration or NOCOPY comes
\* with ASCII; every other record yields an object in POOL.
C12_InitRejects ==
    ret.op = "init_pool" =>
        IF Rejected(ret.arg)
        THEN ret.val = "NULL" /\ G = NoG
        ELSE ret.val = "G" /\ Usable /\ G.type = GREF_POOL /\ G.k \in 1..32

\* NOCOPY with ASCII was passed and refused
C12_Witness ==
    /\ ret.op = "init_pool" /\ ret.val = "NULL" /\ ~ret.arg.null
    /\ ret.arg.k = 32 /\ ret.arg.index_mode = gref_index_mode.GREF_INDEX_ITER
    /\ ret.arg.copy_mode = gref_copy_mode.GREF_NOCOPY /\ ret.arg.seq_format = 0
(***************************************************************************)
(* C13: the section count of a pool                                        *)
(***************************************************************************)
\* the names the caller has referenced, by a segment or by a link
UserNames(keys) == {keys[i] : i \in 1..Len(keys)} \cap Names

\* C13: in POOL get_section_cnt() equals the number of distinct names
\* referenced so far, whether by a segment or only by a link.
C13_SectionCnt ==
    (Usable /\ G.type = GREF_POOL) =>
        gref_get_section_cnt(G) = Cardinality(UserNames(G.hmap))
(***************************************************************************)
(* C14: the tail sentinel                                                  *)
(***************************************************************************)
\* the registry of g: the user's names and one more entry, which sits at
\* tail_id, right after the largest user id, with len 0
OneSentinel(g) ==
    /\ hmap_get_count(g.hmap) = Cardinality(UserNames(g.hmap)) + 1
    /\ g.tail_id = Cardinality(UserNames(g.hmap))
    /\ gref_get_name(g, g.tail_id) \notin Names
    /\ gref_get_section(g, g.tail_id).len = 0

Succeeded(op) == ret'.op = op /\ ret'.val = "G"

\* C14: after every successful freeze the registry holds exactly one entry
\* more than the user's names, the tail sentinel at id = tail_id with
\* len 0; melt keeps it, and a freeze of a pool that got no new name since
\* the last freeze adds no entry.
C14_TailSentinel ==
    [][/\ Succeeded("freeze") => OneSentinel(G')
       /\ Succeeded("melt") => G'.hmap = G.hmap
       /\ (Succeeded("freeze") /\ hist.nfreeze > 0
             /\ UserNames(G.hmap) = UserNames(hist.acv.hmap)) => G'.hmap = G.hmap]_vars
(***************************************************************************)
(* C15: the walk ends                                                      *)
(***************************************************************************)
\* the last call was an iter_next that returned the terminal tuple
Terminal == ret.op = "iter_next" /\ ~iter.fault /\ ret.val = TerminalTuple

\* C15: for every archive, cyclic ones included, repeated iter_next calls
\* return the terminal tuple after finitely many calls, and only once every
\* forward base gid below 2 * tail_id has been walked.
C15_WalkEnds ==
    /\ [](Terminal => iter.base_gid >= 2 * G.tail_id)
    /\ (iter.open ~> Terminal)
(***************************************************************************)
(* C16: where a tuple starts                                               *)
(***************************************************************************)
\* need more bases can be read through the successors of gid and theirs
RECURSIVE Supplies(_, _, _, _)
Supplies(acv, gid, need, fuel) ==
    \/ need = 0
    \/ /\ fuel > 0
       /\ \E j \in link_idx_base(acv, gid)..(link_idx_base(acv, gid + 1) - 1) :
            Supplies(acv, At0(acv.link_table, j),
                     need - MIN2(need, At0(acv.sec, _decode_id(At0(acv.link_table, j))).len),
                     fuel - 1)

\* (gid, pos) is a start of a window of k bases: a forward gid of a section
\* below tail_id, pos inside the section, k bases from there
ValidStart(acv, gid, pos) ==
    /\ gid % 2 = 0 /\ gid \in 0..(2 * acv.tail_id - 1)
    /\ pos \in 0..(At0(acv.sec, _decode_id(gid)).len - 1)
    /\ Supplies(acv, gid, acv.k - MIN2(acv.k, At0(acv.sec, _decode_id(gid)).len - pos),
                2 * acv.k * (acv.tail_id + 1))

Emitted == ret.op = "iter_next" /\ ~iter.fault /\ ret.val # TerminalTuple

\* C16: every tuple the walker emits and every record of kmer_table has the
\* forward gid of the segment where its window starts and a pos inside that
\* segment from which k bases are available, in the segment or through
\* link-table successors.
C16_TupleStart ==
    /\ Emitted => ret.val.gid = iter.base_gid
                   /\ ValidStart(G, ret.val.gid, ret.val.pos)
    /\ (Usable /\ G.type = GREF_IDX) =>
            \A i \in 1..Len(G.kmer_table) :
                ValidStart(G, G.kmer_table[i].gid, G.kmer_table[i].pos)
(***************************************************************************)
(* C17: the boundary window of a short base segment                        *)
(***************************************************************************)
\* section id is shorter than k and has exactly one successor, which holds
\* the bases the window at pos 0 lacks
ShortWithSuccessor(acv, id) ==
    /\ At0(acv.sec, id).len \in 1..(acv.k - 1)
    /\ Len(Successors(acv, 2 * id)) = 1
    /\ At0(acv.sec, _decode_id(Successors(acv, 2 * id)[1])).len
            >= acv.k - At0(acv.sec, id).len

\* base j of that window: the bases of the section, then the bases of the
\* successor in the order the walker reads them
BoundaryBase(acv, id, j) ==
    IF j < At0(acv.sec, id).len THEN BaseAt(acv, 2 * id, j)
    ELSE BaseAt(acv, Successors(acv, 2 * id)[1], j - At0(acv.sec, id).len)

RECURSIVE PackWord(_, _, _)
PackWord(f, j, k) == IF j = k THEN 0 ELSE f[j] * Pow(4, j) + PackWord(f, j + 1, k)

\* the concrete words of the window (none when it holds a gap)
BoundaryWords(acv, id) ==
    {PackWord(f, 0, acv.k) :
        f \in {g \in [0..(acv.k - 1) -> 0..3] :
                 \A j \in 0..(acv.k - 1) :
                    g[j] \in Range(At0(iter_encode_2bit, BoundaryBase(acv, id, j)))}}

\* the window at pos 0 of section id runs into the one successor and holds
\* no gap
Boundary(acv, id) == ShortWithSuccessor(acv, id) /\ BoundaryWords(acv, id) # {}

KmersAt(v, gid, pos) ==
    {v[i].kmer : i \in {n \in 1..Len(v) : v[n].gid = gid /\ v[n].pos = pos}}

InSegment(acv, t) ==
    /\ t.gid % 2 = 0 /\ t.gid \in 0..(2 * acv.tail_id - 1)
    /\ t.pos >= 0 /\ t.pos + acv.k <= At0(acv.sec, _decode_id(t.gid)).len
    /\ \A j \in 0..(acv.k - 1) : Width(BaseAt(acv, t.gid, t.pos + j)) > 0

\* the 2-bit codes a base of the window can stand for
CodesAt(acv, t, j) == Range(At0(iter_encode_2bit, BaseAt(acv, t.gid, t.pos + j)))

\* the tuple returned last was taken from the k-mer set of the frame (and is
\* not the word left in the buffer of a frame whose set is empty)
FromFrame == Emitted /\ Top(iter.stack).kmer_idx <= Top(iter.stack).kmer_occ

LowBase(w) == w % 4
HighBase(w, k) == (w \div Pow(4, k - 1)) % 4

\* the words of a query with its first and with its last character at the
\* bottom
FirstLow(seq) == PackWord([j \in 0..(Len(seq) - 1) |-> gref_encode_2bit(seq[j + 1])],
                          0, Len(seq))
LastLow(seq) == PackWord([j \in 0..(Len(seq) - 1) |-> gref_encode_2bit(seq[Len(seq) - j])],
                         0, Len(seq))

MatchReturned == ret.op = "match" /\ ret.val = "slice"

Complement4(c) ==
    ((c % 2) * 8) + (((c \div 2) % 2) * 4) + (((c \div 4) % 2) * 2) + ((c \div 8) % 2)

\* base j of the oriented segment gid read as a strand: from the start
\* unchanged for dir = 0, from the far end and complemented for dir = 1
StrandBase(acv, gid, j) ==
    IF _decode_dir(gid) = 0 THEN BaseAt(acv, gid, j)
    ELSE Complement4(BaseAt(acv, gid, j))

\* the words of the window at pos 0 of a short section id and of its one
\* successor read as a strand
StrandWords(acv, id) ==
    {PackWord(f, 0, acv.k) :
        f \in {g \in [0..(acv.k - 1) -> 0..3] :
                 \A j \in 0..(acv.k - 1) :
                    g[j] \in Range(At0(iter_encode_2bit,
                        IF j < At0(acv.sec, id).len THEN BaseAt(acv, 2 * id, j)
                        ELSE StrandBase(acv, Successors(acv, 2 * id)[1],
                                        j - At0(acv.sec, id).len)))}}

\* C19: the bases the walker appends from a successor with dir = 1 are that
\* segment's bases from its far end toward its start, each complemented;
\* with dir = 0 they are read from the start unchanged; no reversed copy of
\* a segment is stored.
C19_ReverseComplement ==
    (iter.open /\ ~iter.fault) =>
        /\ G.seq = hist.pool.seq
        /\ \A id \in 0..(G.tail_id - 1) :
            (Boundary(G, id) /\ iter.base_gid > 2 * id) =>
                KmersAt(hist.v, 2 * id, 0) = StrandWords(G, id)

(***************************************************************************)
(* C20: the mask of the 2-bit lookup                                       *)
(***************************************************************************)
\* m, read as a 64-bit word, has exactly its low n bits set (a negative m is
\* the sign-extended int the assignment to the uint64_t field stores)
RECURSIVE LowBitsSet(_, _, _)
LowBitsSet(m, n, width) ==
    IF width = 0 THEN TRUE
    ELSE /\ m % 2 = (IF n > 0 THEN 1 ELSE 0)
         /\ LowBitsSet(m \div 2, IF n > 0 THEN n - 1 ELSE 0, width - 1)

\* w & (2^n - 1) for a word of the model (below 2^31)
LowBits(w, n) == IF n >= 31 THEN w ELSE w % Pow(2, n)

\* C20: for every k in 1..32 the index holds mask = 2^(2k) - 1 as a 64-bit
\* value, and match_2bit of a word returns the slice that match_2bit of the
\* word's low 2k bits returns (for k = 3, 0xDEADBEEF and 0xDEADBEEF & 0x3F).
C20_Mask ==
    /\ G.type = GREF_IDX => LowBitsSet(G.mask, 2 * G.k, 64)
    /\ ret.op = "match_2bit" =>
            /\ ret.val = "slice"
            /\ ret.res = gref_match_2bitpacked(G, LowBits(ret.arg, 2 * G.k))

(***************************************************************************)
(* C21: the terminal value and the words of real windows                   *)
(***************************************************************************)
\* the frame has read a full window: gref_iter_next returns its word
WindowRead == ret.op = "fetch" /\ ret.pos >= G.k

\* C21: for every k in 1..32 no tuple of a real window has kmer equal to the
\* terminal value, all 64 bits set, so that a drain that stops at that value
\* does not stop at a real tuple.
C21_NoTerminalWord == WindowRead => ret.kmer # word_ones

(***************************************************************************)
(* C22: the index of sec0 = GGRA alone, k = 3                              *)
(***************************************************************************)
\* match(word) has returned from the index of the graph of sec0 alone
MatchedAlone(word) ==
    /\ hist.nseg = 1 /\ G.type = GREF_IDX
    /\ ret.op = "match" /\ ret.val = "slice" /\ ret.arg = word

\* the slice returned holds the records of recs, each once
Records(recs) ==
    /\ ret.res.len = Cardinality(recs)
    /\ Len(ret.res.hits) = Cardinality(recs)
    /\ {ret.res.hits[i] : i \in 1..Len(ret.res.hits)} = recs

\* C22 as stated: match("GGA") returns exactly {(gid 0, pos 0)},
\* match("GGG") exactly {(gid 0, pos 0)}, match("GAA") exactly
\* {(gid 0, pos 1)} and match("GGT") nothing.
C22_GGRA ==
    /\ MatchedAlone(<<chG, chG, chA>>) => Records({[gid |-> 0, pos |-> 0]})
    /\ MatchedAlone(<<chG, chG, chG>>) => Records({[gid |-> 0, pos |-> 0]})
    /\ MatchedAlone(<<chG, chA, chA>>) => Records({[gid |-> 0, pos |-> 1]})
    /\ MatchedAlone(<<chG, chG, chT>>) => Records({})

\* C22 amended: GGA is the window at pos 0 (R read as A) and the window at
\* pos 1 (R read as G); match("GGA") returns both records.
C22_GGRA_BothWindows ==
    /\ MatchedAlone(<<chG, chG, chA>>) =>
            Records({[gid |-> 0, pos |-> 0], [gid |-> 0, pos |-> 1]})
    /\ MatchedAlone(<<chG, chG, chG>>) => Records({[gid |-> 0, pos |-> 0]})
    /\ MatchedAlone(<<chG, chA, chA>>) => Records({[gid |-> 0, pos |-> 1]})
    /\ MatchedAlone(<<chG, chG, chT>>) => Records({})

C22_Witness == MatchedAlone(<<chG, chG, chA>>) /\ ret.res.len = 2

(***************************************************************************)
(* C23: words of characters that are no bases                              *)
(***************************************************************************)
\* c is none of A, C, G, T, U in either case
NonBase(c) == _b(c) \notin {_b(chA), _b(chC), _b(chG), _b(chT), _b(85)}

\* C23: in IDX, match of a word whose characters are all non-bases (encoded
\* as 0), such as "XXX" for k = 3, returns an empty result whatever the
\* graph contains.
C23_NonBaseWordEmpty ==
    (/\ G.type = GREF_IDX
     /\ ret.op = "match" /\ ret.val = "slice"
     /\ \A i \in 1..Len(ret.arg) : NonBase(ret.arg[i]) /\ gref_encode_2bit(ret.arg[i]) = 0)
        => ret.res.len = 0

(***************************************************************************)
(* C24: what disable_index releases                                        *)
(***************************************************************************)
Disabled == ret.op = "disable_index" /\ ret.val = "G"

\* C24: disable_index on an IDX releases kmer_idx_table and kmer_table
\* (neither stays allocated), clears both in G and returns G in ACV.
C24_DisableReleases ==
    Disabled =>
        /\ G.type = GREF_ACV /\ G.alive
        /\ G.kmer_idx_table = <<>> /\ G.kmer_table = <<>> /\ G.kmer_table_size = 0
        /\ "kmer_idx_table" \notin G.leaked /\ "kmer_table" \notin G.leaked

(***************************************************************************)
(* C25: an index built again after disable_index                           *)
(***************************************************************************)
\* the step builds an index on the archive that disable_index has just
\* returned; hist.v is the tuple vector of the index that was disabled
Rebuilt ==
    /\ ret.op = "disable_index" /\ ret.val = "G"
    /\ ret'.op = "build_index" /\ ret'.val = "G"

\* the words of k bases
Words(k) == 0..(Pow(4, k) - 1)

\* kmer_idx_table of the index built of the tuples of v
TableOf(g, v) ==
    [i \in 1..(Pow(4, g.k) + 1) |->
        Cardinality({j \in 1..Len(v) : v[j].kmer < i - 1})]

\* C25: build_index(disable_index(build_index(A))) has the kmer_idx_table
\* and the mask of build_index(A) and, for every word, the same multiset of
\* (gid, pos) records.
C25_Rebuild ==
    [][Rebuilt =>
        /\ G'.kmer_idx_table = TableOf(G, hist.v)
        /\ G'.mask = Pow(4, G.k) - 1
        /\ \A w \in Words(G.k) :
            SameBag(gref_match_2bitpacked(G', w).hits, RecordsOf(hist.v, w))]_vars

(***************************************************************************)
(* C26: the record of a section once written (checked under SpecSeg)       *)
(***************************************************************************)
\* an append_segment call of the run has written the record of section id
Written(id) ==
    \E i \in 1..Len(hist.segs) : hmap_find(G.hmap, hist.segs[i].name) = id

\* the step is an append_segment or an append_link on a pool
AppendStep ==
    /\ Usable /\ G.type = GREF_POOL
    /\ ret'.op \in {"append_segment", "append_link"}

\* C26: once append_segment has written {id, len, base} of a section, no
\* later append_segment, with the same or another name, and no later
\* append_link changes the record, in any POOL phase, after a melt as well.
C26_RecordImmutable ==
    [][AppendStep =>
        \A id \in 0..(hmap_get_count(G.hmap) - 1) :
            Written(id) => gref_get_section(G', id) = gref_get_section(G, id)]_vars

(***************************************************************************)
(* C27: section ids and names (checked under Spec)                         *)
(***************************************************************************)
\* keys with the names of refs that are not in it added in their order
RECURSIVE Referenced(_, _)
Referenced(keys, refs) ==
    IF refs = <<>> THEN keys
    ELSE Referenced(IF \E i \in 1..Len(keys) : keys[i] = Head(refs)
                    THEN keys ELSE Append(keys, Head(refs)),
                    Tail(refs))

\* the names the step's call refers to, in the order of its arguments
RefsOfStep ==
    IF hist'.nseg > hist.nseg THEN <<hist'.segs[Len(hist'.segs)].name>>
    ELSE IF hist'.nlink > hist.nlink
    THEN <<hist'.links[Len(hist'.links)].src, hist'.links[Len(hist'.links)].dst>>
    ELSE <<>>

\* id -> name, as get_name gives it
NamesOf(g) == [id \in 0..(hmap_get_count(g.hmap) - 1) |-> gref_get_name(g, id)]

\* C27: ids are assigned consecutively from 0 in the order in which names
\* are first referenced, by append_segment or by append_link; a name keeps
\* its id for the life of G, and get_name(id) returns it in POOL, ACV and
\* IDX.
C27_IdOrder ==
    [][(G.alive /\ G'.alive) =>
        /\ \A id \in DOMAIN NamesOf(G) : gref_get_name(G', id) = NamesOf(G)[id]
        /\ RefsOfStep # <<>> =>
            \A i \in 1..Len(Referenced(G.hmap, RefsOfStep)) :
                gref_get_name(G', i - 1) = Referenced(G.hmap, RefsOfStep)[i]]_vars

\* an index whose section 0 was named by append_segment and whose section 1
\* was first named by an append_link, as the other end of a link of section 0
C27_Witness ==
    /\ G.type = GREF_IDX /\ G.alive
    /\ hist.nlink = 1 /\ hist.nseg = 1
    /\ hist.links[1].src # hist.links[1].dst
    /\ gref_get_name(G, 0) = hist.segs[1].name
    /\ gref_get_name(G, 1) \in {hist.links[1].src, hist.links[1].dst} \ {hist.segs[1].name}

(***************************************************************************)
(* C28: the intervals of the sections in COPY mode (checked under SpecSeg) *)
(***************************************************************************)
\* every append_segment call of the run had a name of its own
FreshNames ==
    \A i, j \in 1..Len(hist.segs) : i # j => hist.segs[i].name # hist.segs[j].name

RECURSIVE SumLen(_, _)
\* the lengths of the inputs of the first n calls, added up
SumLen(segs, n) == IF n = 0 THEN 0 ELSE SumLen(segs, n - 1) + Len(segs[n].s)

CopyMode == G.append_seq \in {"gref_copy_seq_ascii", "gref_copy_seq_4bit"}

\* C28: in COPY mode, after append_segment calls with fresh names, each
\* section's len is the length of its input and its base the sum of the
\* lengths appended before it, and get_total_len is the sum of all lengths.
C28_Intervals ==
    (G.alive /\ CopyMode /\ FreshNames) =>
        /\ \A i \in 1..Len(hist.segs) :
            /\ gref_get_section(G, hmap_find(G.hmap, hist.segs[i].name)).len
                    = Len(hist.segs[i].s)
            /\ gref_get_section(G, hmap_find(G.hmap, hist.segs[i].name)).base
                    = SumLen(hist.segs, i - 1)
        /\ gref_get_total_len(G) = SumLen(hist.segs, Len(hist.segs))

\* two sections with bases in them, the second behind the first
C28_Witness ==
    /\ G.alive /\ CopyMode /\ FreshNames
    /\ Len(hist.segs) = 2 /\ Len(hist.segs[1].s) = 2 /\ Len(hist.segs[2].s) = 1
    /\ gref_get_section(G, hmap_find(G.hmap, hist.segs[2].name)).base = 2
    /\ gref_get_total_len(G) = 3

(***************************************************************************)
(* C29: seq_rem of the packed-buffer builder (checked under SpecRef)       *)
(***************************************************************************)
\* C29: in every state of the builder, from the freshly initialised object
\* on, seq_rem is a multiple of 4 and strictly less than 64.
C29_SeqRem == G.ok => (G.seq_rem % 4 = 0 /\ G.seq_rem < 64)

(***************************************************************************)
(* C30: the order of the walker's output                                   *)
(***************************************************************************)
\* the number of bases of the segments of a path of gids
RECURSIVE PathLen(_, _)
PathLen(acv, path) ==
    IF path = <<>> THEN 0
    ELSE At0(acv.sec, _decode_id(Head(path))).len + PathLen(acv, Tail(path))

\* base j of the path, as the walker reads its segments
RECURSIVE PathBase(_, _, _)
PathBase(acv, path, j) ==
    IF j < At0(acv.sec, _decode_id(Head(path))).len THEN BaseAt(acv, Head(path), j)
    ELSE PathBase(acv, Tail(path), j - At0(acv.sec, _decode_id(Head(path))).len)

\* the words of a set in ascending order: the base appended last is in the
\* high bits, so it is the major key
RECURSIVE Ascending(_)
Ascending(S) ==
    IF S = {} THEN <<>>
    ELSE LET m == CHOOSE x \in S : \A y \in S : x <= y
         IN  <<m>> \o Ascending(S \ {m})

\* the tuples of the window of the path that starts at pos of its first
\* segment
WindowTuples(acv, path, pos) ==
    LET words == {PackWord(f, 0, acv.k) :
                    f \in {g \in [0..(acv.k - 1) -> 0..3] :
                             \A j \in 0..(acv.k - 1) :
                                g[j] \in Range(At0(iter_encode_2bit,
                                                   PathBase(acv, path, pos + j)))}}
        asc == Ascending(words)
    IN  [i \in 1..Len(asc) |-> [kmer |-> asc[i], gid |-> Head(path), pos |-> pos]]

\* the windows that start in the first segment of the path and end in its
\* last one, by ascending pos
RECURSIVE PathWindows(_, _, _)
PathWindows(acv, path, pos) ==
    IF \/ pos >= At0(acv.sec, _decode_id(Head(path))).len
       \/ pos + acv.k - 1 >= PathLen(acv, path)
    THEN <<>>
    ELSE (IF pos + acv.k - 1 >= PathLen(acv, SubSeq(path, 1, Len(path) - 1))
          THEN WindowTuples(acv, path, pos) ELSE <<>>)
         \o PathWindows(acv, path, pos + 1)

\* the windows of a path, then those through each successor of its last
\* segment in the order of L, depth first, while a window that starts in
\* the first segment runs past the end of the path
RECURSIVE PathOrder(_, _, _)
RECURSIVE SuccOrder(_, _, _, _)
PathOrder(acv, path, fuel) ==
    PathWindows(acv, path, 0)
    \o (IF /\ fuel > 0
           /\ At0(acv.sec, _decode_id(Head(path))).len > 0
           /\ At0(acv.sec, _decode_id(Head(path))).len + acv.k - 2 >= PathLen(acv, path)
        THEN SuccOrder(acv, path, link_idx_base(acv, path[Len(path)]), fuel - 1)
        ELSE <<>>)

SuccOrder(acv, path, j, fuel) ==
    IF j >= link_idx_base(acv, path[Len(path)] + 1) THEN <<>>
    ELSE PathOrder(acv, Append(path, At0(acv.link_table, j)), fuel)
         \o SuccOrder(acv, path, j + 1, fuel)

\* the base segments by ascending gid
RECURSIVE RefOrder(_, _)
RefOrder(acv, id) ==
    IF id >= acv.tail_id THEN <<>>
    ELSE PathOrder(acv, <<2 * id>>, 2 * acv.k) \o RefOrder(acv, id + 1)

\* C30: the sequence of tuples the walker returns is the one the archive
\* fixes: base gids ascending; for a base the in-segment windows by
\* ascending pos, then through each successor in the order of L, depth
\* first; within a window the words with the base appended last as the
\* major key; a window reachable through several paths once per path.  At
\* any time the tuples returned so far are the start of that sequence, and
\* at the terminal tuple they are all of it.
C30_WalkOrder ==
    (iter.open /\ ~iter.fault) =>
        \A ref \in {RefOrder(G, 0)} :
            /\ Len(hist.v) <= Len(ref)
            /\ hist.v = SubSeq(ref, 1, Len(hist.v))
            /\ Terminal => hist.v = ref

(***************************************************************************)
(* C31: the order of the hits in one match result (checked under SpecIdx)  *)
(***************************************************************************)
MatchedWord == ret.op = "match_2bit" /\ ret.val = "slice" /\ G.type = GREF_IDX

\* C31: within one match result the hits appear in the order in which the
\* walker emitted them, whatever order the sort gives to tuples of equal
\* kmer.
C31_HitOrder ==
    MatchedWord => ret.res.hits = RecordsOf(hist.v, ret.arg % Pow(4, G.k))

(***************************************************************************)
(* C32: the successors a frame tries (checked under SpecWalk)              *)
(***************************************************************************)
\* C32: the link index of every frame of the walk, whatever the orientation
\* of the gid it was pushed for, runs through the links of that gid:
\* L[link_idx_base[g] .. link_idx_base[g+1]], not the links of rev(g).
C32_FrameLinks ==
    (iter.open /\ ~iter.fault) =>
        \A i \in 1..Len(iter.stack) :
            iter.stack[i].link_idx \in
                link_idx_base(G, iter.stack[i].sec_gid)
                    ..link_idx_base(G, iter.stack[i].sec_gid + 1)

(***************************************************************************)
(* C33: the depth counters of the frames (checked under SpecWalk)          *)
(***************************************************************************)
\* the bases fetched on the current path past the root, up to frame i
FetchedBelowRoot(st, i) == st[i].pos - st[1].pos

\* C33: in every walker state, for every frame below the root, the bases
\* fetched past the root plus rem_len plus global_rem_len are k - 1, and
\* neither counter is below 0 (as unsigned: wrapped), also for a successor
\* that is shorter than the remaining depth or empty.
C33_DepthCounters ==
    iter.open =>
        \A i \in 2..Len(iter.stack) :
            /\ iter.stack[i].rem_len >= 0
            /\ iter.stack[i].global_rem_len >= 0
            /\ FetchedBelowRoot(iter.stack, i) + iter.stack[i].rem_len
                    + iter.stack[i].global_rem_len = iter.seed_len - 1

(***************************************************************************)
(* C34: the size of the partial k-mer set (checked under SpecOcc)          *)
(***************************************************************************)
RECURSIVE Product(_)
Product(w) == IF w = <<>> THEN 1 ELSE Head(w) * Product(Tail(w))

\* C34: in both expansion routines, after a base is appended the size of
\* the partial k-mer set is the product of the widths of the at most k
\* bases of the window, for every k in 1..32.
C34_SetSize == ret.op = "append_base" => ret.w.occ = Product(hist.win)

(***************************************************************************)
(* C35: the frames stay inside the iterator buffer (checked under SpecBuf) *)
(***************************************************************************)
\* C35: the frames of a walk, headers and partial k-mer sets with the
\* replication done while a base is appended, never extend past the
\* max(1024, 3^(k/2)) words allocated by iter_init.
C35_FramesInBuffer ==
    iter.open => StackWords(iter.stack) <= iter_init_stack_size(G.k)

(***************************************************************************)
(* C36: what the conversions and the queries leave alone (checked under    *)
(* Spec)                                                                   *)
(***************************************************************************)
\* the sequence buffer, the records of the sections and the two accessors
SameSequence(g, h) ==
    /\ g.seq = h.seq
    /\ gref_get_section_cnt(g) = gref_get_section_cnt(h)
    /\ gref_get_total_len(g) = gref_get_total_len(h)
    /\ \A id \in 0..(gref_get_section_cnt(g) - 1) :
            gref_get_section(g, id) = gref_get_section(h, id)

\* L and link_idx_base
SameLinks(g, h) ==
    /\ g.link_table = h.link_table
    /\ \A gid \in 0..(2 * (g.tail_id + 1)) : link_idx_base(g, gid) = link_idx_base(h, gid)

\* C36: freeze, build_index and disable_index leave the sequence buffer,
\* every section's {id, len, base}, get_section_cnt and get_total_len
\* unchanged; build_index, disable_index, match, match_2bit and iter_next
\* leave L and link_idx_base unchanged.
C36_Frame ==
    [][/\ (ret'.op \in {"freeze", "build_index", "disable_index"} /\ ret'.val = "G")
            => SameSequence(G, G')
       /\ (/\ ret'.op \in {"build_index", "disable_index", "match", "match_2bit",
                           "iter_next"}
           /\ G.alive /\ G'.alive /\ G.type \in {GREF_ACV, GREF_IDX})
            => SameLinks(G, G')]_vars

\* an index was taken down again on a graph with bases and a link
C36_Witness ==
    /\ ret.op = "disable_index" /\ ret.val = "G"
    /\ G.type = GREF_ACV /\ Len(G.seq) > 0 /\ Len(G.link_table) > 0

(***************************************************************************)
(* C37: iter_next after the terminal tuple (checked under SpecWalk)        *)
(***************************************************************************)
\* C37: once iter_next has returned the terminal tuple, a later iter_next
\* on the same iterator returns the terminal tuple again and touches no
\* frame.
C37_TerminalSticks ==
    [][(Terminal /\ iter'.open /\ ret'.op = "iter_next") =>
            /\ ~iter'.fault
            /\ ret'.val = TerminalTuple
            /\ iter'.stack = iter.stack]_vars

(***************************************************************************)
(* C38: no frame above the root is read (checked under SpecWalk)           *)
(***************************************************************************)
\* the step read a frame through the NULL pointer that is above the root
ReadNullFrame == iter'.open /\ iter'.fault /\ iter'.stack = <<>>

\* C38: seeding and walking never read a frame above the root: a base
\* segment without a complete window of k bases is reported finished and
\* the walk goes on with the next base gid, and popping past the root ends
\* the segment.  (Calls after the terminal tuple are C37's.)
C38_NoFrameAboveRoot ==
    [][(ret'.op \in {"iter_init", "iter_next"} /\ ~Terminal) => ~ReadNullFrame]_vars

(***************************************************************************)
(* C39: the slots and gids of freeze lie inside the registry               *)
(***************************************************************************)
\* the gids whose link_idx_base slot the freeze of a pool with this tail_id writes
SlotsWritten(tail_id) == 0..(2 * (tail_id + 1))

\* slot gid belongs to entry gid / 2, which the registry holds
SlotInRegistry(g, gid) == _decode_id(gid) < hmap_get_count(g.hmap)

\* C39: for every pool, also one with names referenced only by links, every
\* link_idx_base slot that freeze writes (gids 0 .. 2 * (tail_id + 1))
\* belongs to an entry of the registry, and every from_gid and to_gid of the
\* link table is below 2 * (tail_id + 1).
C39_SlotsInRegistry ==
    [][Succeeded("freeze") =>
        /\ \A gid \in SlotsWritten(G'.tail_id) : SlotInRegistry(G', gid)
        /\ \A i \in 1..Len(G.link) :
              /\ G.link[i].from < 2 * (G'.tail_id + 1)
              /\ G.link[i].to < 2 * (G'.tail_id + 1)]_vars

(***************************************************************************)
(* C40: iter_clean releases the iterator                                   *)
(***************************************************************************)
\* C40: after iter_clean the iterator's buffer is released, both when the
\* iterator was drained to the terminal tuple and when it was only partly
\* consumed.
C40_CleanReleases == ret.op = "iter_clean" => ~iter.alive

====
